---- MODULE Spec2Model ----
(***************************************************************************)
(* A model of VariableEnhancedCSSToSCSSConverter                           *)
(* (src/src/variable-enhanced-converter.ts) and of the batch command that  *)
(* drives it (src/src/improved-converter.ts).                              *)
(*                                                                         *)
(* Strings of the program are sequences of one-character strings, so that  *)
(* the regular expressions, split/startsWith/substring calls and string    *)
(* concatenations of the source are computed, not assumed.                 *)
(*                                                                         *)
(* A JavaScript Map is a sequence of entries in insertion order (a Map     *)
(* iterates in insertion order, and set() on a present key keeps the       *)
(* key's position).  The NestedRule tree is the sequence of its nodes in   *)
(* creation order, each node carrying its path of Map keys from the root;  *)
(* the children Map of a node is the sub-sequence of nodes whose path is   *)
(* that node's path plus one key.                                          *)
(*                                                                         *)
(* Options the modelled code never reads (maxNestingDepth,                 *)
(* enableAdvancedBEM) are left out; indentSize/indentType only scale the   *)
(* indentation, which the model keeps as a depth; preserveComments and     *)
(* sortProperties are held at their defaults (true, false).  The fields    *)
(* specificity, hash, contexts and duplicateCount are written by the code  *)
(* and never read, and are left out.                                       *)
(***************************************************************************)
EXTENDS Integers, Sequences, FiniteSets, TLC

(***************************************************************************)
(* Bounds of the model.                                                    *)
(***************************************************************************)
MaxFiles == 2
MaxNodes == 3
MaxBEMNodes == 4
MaxVarNodes == 3
MaxChainNodes == 3
MaxSmartNodes == 3
MaxNameNodes == 4
MaxSuffixNodes == 2
MaxListed == 2
MaxReadFailures == 1

(***************************************************************************)
(* Characters and string helpers.                                          *)
(***************************************************************************)
LowerLetters ==
  {"a","b","c","d","e","f","g","h","i","j","k","l","m",
   "n","o","p","q","r","s","t","u","v","w","x","y","z"}

UpperLetters ==
  {"A","B","C","D","E","F","G","H","I","J","K","L","M",
   "N","O","P","Q","R","S","T","U","V","W","X","Y","Z"}

Digits == {"0","1","2","3","4","5","6","7","8","9"}

HexDigits == Digits \cup {"a","b","c","d","e","f","A","B","C","D","E","F"}

\* [a-zA-Z0-9]
AlphaNum == LowerLetters \cup UpperLetters \cup Digits

\* [a-zA-Z0-9-]
WordChars == AlphaNum \cup {"-"}

\* \s
Whitespace == {" ", "\t", "\n"}

\* the characters a "[^,\s]" class excludes
CommaOrSpace == {","} \cup Whitespace

\* the characters a "[^,\\s]" class excludes: a comma, a backslash, the letter s
CommaBackslashS == {",", "\\", "s"}

\* [\s>+~]
Combinators == Whitespace \cup {">", "+", "~"}

Take(s, n) == SubSeq(s, 1, n)

Drop(s, n) == SubSeq(s, n + 1, Len(s))

\* String.prototype.startsWith
StartsWith(s, p) == Len(p) <= Len(s) /\ SubSeq(s, 1, Len(p)) = p

\* String.prototype.includes
Includes(s, p) ==
  \E i \in 1..(Len(s) - Len(p) + 1) : SubSeq(s, i, i + Len(p) - 1) = p

\* the last index j >= i-1 with s[i..j] all in class C (a greedy C* from i)
RunEnd(s, i, C) ==
  CHOOSE j \in (i - 1)..Len(s) :
    /\ \A k \in i..j : s[k] \in C
    /\ (j = Len(s) \/ s[j + 1] \notin C)

\* the last index j >= i-1 with s[i..j] all outside X (a greedy [^X]* from i)
RunEndNot(s, i, X) ==
  CHOOSE j \in (i - 1)..Len(s) :
    /\ \A k \in i..j : s[k] \notin X
    /\ (j = Len(s) \/ s[j + 1] \in X)

\* index of the first character of s in class C, 0 if none
FirstIn(s, C) ==
  IF \E i \in 1..Len(s) : s[i] \in C
    THEN CHOOSE i \in 1..Len(s) : s[i] \in C /\ \A k \in 1..(i - 1) : s[k] \notin C
    ELSE 0

\* String.prototype.trim
Trim(s) ==
  LET a == RunEnd(s, 1, Whitespace) + 1
      b == IF a > Len(s) THEN Len(s)
           ELSE CHOOSE j \in a..Len(s) :
                  /\ s[j] \notin Whitespace
                  /\ \A k \in (j + 1)..Len(s) : s[k] \in Whitespace
  IN  SubSeq(s, a, b)

\* s.split(c) for a one-character separator c
RECURSIVE Split(_, _)
Split(s, c) ==
  LET i == FirstIn(s, {c})
  IN  IF i = 0 THEN <<s>> ELSE <<Take(s, i - 1)>> \o Split(Drop(s, i), c)

\* s.split(/\s+/).filter(p => p.length > 0)
RECURSIVE SplitWhitespace(_)
SplitWhitespace(s) ==
  LET a == RunEnd(s, 1, Whitespace) + 1
      b == RunEndNot(s, a, Whitespace)
  IN  IF a > Len(s) THEN <<>>
      ELSE <<SubSeq(s, a, b)>> \o SplitWhitespace(Drop(s, b))

\* parts.join(sep)
RECURSIVE Join(_, _)
Join(parts, sep) ==
  IF Len(parts) = 0 THEN <<>>
  ELSE IF Len(parts) = 1 THEN parts[1]
  ELSE parts[1] \o sep \o Join(Tail(parts), sep)

\* s.replace(/:[^,\s]+/g, '')
RECURSIVE StripPseudo(_)
StripPseudo(s) ==
  IF Len(s) = 0 THEN <<>>
  ELSE IF s[1] = ":" /\ Len(s) >= 2 /\ s[2] \notin CommaOrSpace
    THEN StripPseudo(Drop(s, RunEndNot(s, 2, CommaOrSpace)))
    ELSE <<s[1]>> \o StripPseudo(Tail(s))

\* s.replace(/\[[^\]]+\]/g, '')
RECURSIVE StripAttribute(_)
StripAttribute(s) ==
  IF Len(s) = 0 THEN <<>>
  ELSE LET e == RunEndNot(s, 2, {"]"})
       IN  IF s[1] = "[" /\ e >= 2 /\ e < Len(s)
             THEN StripAttribute(Drop(s, e + 1))
             ELSE <<s[1]>> \o StripAttribute(Tail(s))

\* s.match(/(:+[^X]+)/): the first match, <<>> when there is none.  A colon
\* is itself outside X, so a match is a colon followed by the longest
\* non-empty run of characters outside X.
PseudoMatch(s, X) ==
  LET starts == {i \in 1..(Len(s) - 1) : s[i] = ":" /\ s[i + 1] \notin X}
  IN  IF starts = {} THEN <<>>
      ELSE LET i == CHOOSE i \in starts : \A k \in starts : i <= k
           IN  SubSeq(s, i, RunEndNot(s, i + 1, X))


(***************************************************************************)
(* String literals of the source.                                          *)
(***************************************************************************)
str_media == <<"m","e","d","i","a">>
str_keyframes == <<"k","e","y","f","r","a","m","e","s">>
str_webkit_keyframes == <<"-","w","e","b","k","i","t","-","k","e","y","f","r","a","m","e","s">>
str_at_keyframes == <<"@","k","e","y","f","r","a","m","e","s">>
str_at_webkit_keyframes == <<"@","-","w","e","b","k","i","t","-","k","e","y","f","r","a","m","e","s">>
str_keyframes_block == <<"@","k","e","y","f","r","a","m","e","s","-","b","l","o","c","k">>
str_COMMENT == <<"/","*"," ","C","O","M","M","E","N","T"," ","*","/">>
str_from == <<"f","r","o","m">>
str_to == <<"t","o">>
str_default == <<"d","e","f","a","u","l","t">>
str_COMMENTS == <<"C","O","M","M","E","N","T","S">>

(***************************************************************************)
(* Records of the data model.  An absent optional string (mediaQuery,      *)
(* modifier, originalValue, prelude) is the empty string, as every test    *)
(* the code makes on them is a truthiness test.                            *)
(***************************************************************************)
\* interface Declaration
Declaration(property, value, important) ==
  [type |-> "declaration", property |-> property, value |-> value,
   important |-> important, originalValue |-> <<>>]

CommentDeclaration(value) ==
  [type |-> "comment", property |-> <<>>, value |-> value,
   important |-> FALSE, originalValue |-> <<>>]

\* "bemInfo: undefined"
NoBEM ==
  [block |-> <<>>, elements |-> <<>>, modifier |-> <<>>, type |-> "none", level |-> 0]

\* interface ParsedRule
ParsedRule(selector, declarations, bemInfo, mediaQuery) ==
  [selector |-> selector, declarations |-> declarations,
   bemInfo |-> bemInfo, mediaQuery |-> mediaQuery]

(***************************************************************************)
(* The css-tree AST, as far as extractRules reads it.  prelude is          *)
(* csstree.generate(node.prelude); declarations are the Declaration        *)
(* children of the node's block in source order; children are the nodes    *)
(* csstree.walk visits below this one that extractRules reacts to (Rule,   *)
(* Atrule, Comment), in walk order.                                        *)
(***************************************************************************)
RuleNode(prelude, declarations) ==
  [type |-> "Rule", name |-> <<>>, prelude |-> prelude, hasBlock |-> TRUE,
   declarations |-> declarations, children |-> <<>>, value |-> <<>>]

AtruleNode(name, prelude, declarations, children, blockText) ==
  [type |-> "Atrule", name |-> name, prelude |-> prelude, hasBlock |-> TRUE,
   declarations |-> declarations, children |-> children, value |-> blockText]

MediaNode(query, children) == AtruleNode(str_media, query, <<>>, children, <<>>)

CommentNode(value) ==
  [type |-> "Comment", name |-> <<>>, prelude |-> <<>>, hasBlock |-> FALSE,
   declarations |-> <<>>, children |-> <<>>, value |-> value]

\* csstree.walk(ast, enter): pre-order; enter's return value is not
\* walk.skip, so the walk always descends into the children
RECURSIVE Walk(_)
Walk(nodes) ==
  IF Len(nodes) = 0 THEN <<>>
  ELSE <<nodes[1]>> \o Walk(nodes[1].children) \o Walk(Tail(nodes))

(***************************************************************************)
(* parseAdvancedBEM                                                        *)
(***************************************************************************)
\* t matches (?:[a-zA-Z0-9-]+(?:__)?)+ as a whole
RECURSIVE ElementPartMatches(_)
ElementPartMatches(t) ==
  LET e == RunEnd(t, 1, WordChars)
  IN  /\ e >= 1
      /\ \/ e = Len(t)
         \/ /\ e + 2 <= Len(t)
            /\ SubSeq(t, e + 1, e + 2) = <<"_", "_">>
            /\ (e + 2 = Len(t) \/ ElementPartMatches(Drop(t, e + 2)))

\* SplitElements without the split: the element part as one name
SplitElements_Whole(t) == IF Len(t) = 0 THEN <<>> ELSE <<t>>

\* elementPart.split('__').filter(e => e.length > 0)
RECURSIVE SplitElements(_)
SplitElements(t) ==
  LET hits == {i \in 1..(Len(t) - 1) : t[i] = "_" /\ t[i + 1] = "_"}
  IN  IF hits = {} THEN (IF Len(t) = 0 THEN <<>> ELSE <<t>>)
      ELSE LET i == CHOOSE i \in hits : \A k \in hits : i <= k
           IN  (IF i = 1 THEN <<>> ELSE <<Take(t, i - 1)>>)
                 \o SplitElements(Drop(t, i + 1))

\* The ways /^\.(W+)(?:__((?:W+(?:__)?)+))?(?:--(W+))?$/ (W = [a-zA-Z0-9-])
\* matches s: <<b, e>> with the block s[2..b], the element part s[b+3..e]
\* (absent when e = b) and the modifier s[e+3..] (absent when e = Len(s)).
BEMRegexMatches(s) ==
  IF Len(s) < 2 \/ s[1] # "." THEN {}
  ELSE
    LET \* where the block can end: inside the run of W, before __, -- or $
        blockEnds ==
          {b \in 2..RunEnd(s, 2, WordChars) :
             \/ b = Len(s)
             \/ /\ b + 2 <= Len(s)
                /\ SubSeq(s, b + 1, b + 2) \in {<<"_", "_">>, <<"-", "-">>}}
        ElementEnds(b) ==
          {e \in b..Len(s) :
             /\ \/ e = b
                \/ /\ e >= b + 3
                   /\ SubSeq(s, b + 1, b + 2) = <<"_", "_">>
                   /\ ElementPartMatches(SubSeq(s, b + 3, e))
             /\ \/ e = Len(s)
                \/ /\ e + 3 <= Len(s)
                   /\ SubSeq(s, e + 1, e + 2) = <<"-", "-">>
                   /\ \A k \in (e + 3)..Len(s) : s[k] \in WordChars}
    IN  UNION {{<<b, e>> : e \in ElementEnds(b)} : b \in blockEnds}

\* GreedyBEMMatch with a lazy block: the shortest block that matches
GreedyBEMMatch_LazyBlock(s) ==
  LET ms == BEMRegexMatches(s)
      bmin == CHOOSE b \in {m[1] : m \in ms} : \A m \in ms : b <= m[1]
      emax == CHOOSE e \in {m[2] : m \in {x \in ms : x[1] = bmin}} :
                \A m \in {x \in ms : x[1] = bmin} : m[2] <= e
  IN  <<bmin, emax>>

\* The match a backtracking engine returns: every quantifier is greedy, so
\* the block is the longest possible, then the element part the longest.
GreedyBEMMatch(s) ==
  LET ms == BEMRegexMatches(s)
      bmax == CHOOSE b \in {m[1] : m \in ms} : \A m \in ms : m[1] <= b
      emax == CHOOSE e \in {m[2] : m \in {x \in ms : x[1] = bmax}} :
                \A m \in {x \in ms : x[1] = bmax} : m[2] <= e
  IN  <<bmax, emax>>

parseAdvancedBEM(selector) ==
  LET cleanSelector == StripAttribute(StripPseudo(selector))
  IN  IF BEMRegexMatches(cleanSelector) = {} THEN NoBEM
      ELSE
        LET m == GreedyBEMMatch(cleanSelector)
            block == SubSeq(cleanSelector, 2, m[1])
            elementPart == IF m[2] = m[1] THEN <<>>
                           ELSE SubSeq(cleanSelector, m[1] + 3, m[2])
            modifier == IF m[2] = Len(cleanSelector) THEN <<>>
                        ELSE Drop(cleanSelector, m[2] + 2)
            elements == SplitElements(elementPart)
            level == Len(elements)
        IN  IF Len(elements) > 0 /\ modifier # <<>>
              THEN [block |-> block, elements |-> elements, modifier |-> modifier,
                    type |-> "element-modifier", level |-> level + 1]
            ELSE IF Len(elements) > 0
              THEN [block |-> block, elements |-> elements, modifier |-> <<>>,
                    type |-> "element", level |-> level]
            ELSE IF modifier # <<>>
              THEN [block |-> block, elements |-> <<>>, modifier |-> modifier,
                    type |-> "modifier", level |-> 1]
            ELSE [block |-> block, elements |-> <<>>, modifier |-> <<>>,
                  type |-> "block", level |-> 0]

(***************************************************************************)
(* extractRules                                                            *)
(***************************************************************************)
\* The declaration loop of a Rule: a declaration whose property (with the
\* same !important flag) was seen before removes the first earlier one.
RECURSIVE DedupDeclarations(_, _)
DedupDeclarations(todo, declarations) ==
  IF Len(todo) = 0 THEN declarations
  ELSE
    LET d == todo[1]
        same == {i \in 1..Len(declarations) :
                   /\ declarations[i].type = "declaration"
                   /\ declarations[i].property = d.property
                   /\ declarations[i].important = d.important}
        existingIndex == IF same = {} THEN 0
                         ELSE CHOOSE i \in same : \A k \in same : i <= k
        kept == IF existingIndex = 0 THEN declarations
                ELSE Take(declarations, existingIndex - 1)
                       \o Drop(declarations, existingIndex)
    IN  DedupDeclarations(Tail(todo), Append(kept, d))

\* selector.match(/^(0%|100%|\d+%|from|to)$/)
IsKeyframeStepSelector(selector) ==
  \/ selector = str_from
  \/ selector = str_to
  \/ /\ Len(selector) >= 2
     /\ selector[Len(selector)] = "%"
     /\ \A k \in 1..(Len(selector) - 1) : selector[k] \in Digits

\* the rules one visited node pushes
RulesOfNode(node, currentMediaQuery, enableBEM, preserveComments) ==
  IF node.type = "Atrule" THEN
    IF node.name \in {str_keyframes, str_webkit_keyframes}
         /\ node.prelude # <<>> /\ node.hasBlock
      THEN <<ParsedRule(<<"@">> \o node.name \o <<" ">> \o node.prelude,
                        <<Declaration(str_keyframes_block, node.value, FALSE)>>,
                        NoBEM, currentMediaQuery)>>
    ELSE IF node.hasBlock
      THEN <<ParsedRule(<<"@">> \o node.name
                          \o (IF node.prelude # <<>> THEN <<" ">> \o node.prelude
                              ELSE <<>>),
                        node.declarations, NoBEM, currentMediaQuery)>>
    ELSE <<>>
  ELSE IF node.type = "Rule" THEN
    LET declarations == DedupDeclarations(node.declarations, <<>>)
        selectors == Split(node.prelude, ",")
    IN  [i \in 1..Len(selectors) |->
           LET trimmedSelector == Trim(selectors[i])
           IN  ParsedRule(trimmedSelector, declarations,
                          IF enableBEM THEN parseAdvancedBEM(trimmedSelector)
                          ELSE NoBEM,
                          currentMediaQuery)]
  ELSE IF node.type = "Comment" /\ preserveComments
    THEN <<ParsedRule(str_COMMENT, <<CommentDeclaration(node.value)>>,
                      NoBEM, currentMediaQuery)>>
  ELSE <<>>

\* the walk callback over the visited nodes: currentMediaQuery is assigned
\* at an @media at-rule and nowhere else
RECURSIVE ExtractWalk(_, _, _, _, _)
ExtractWalk(visited, currentMediaQuery, rules, enableBEM, preserveComments) ==
  IF Len(visited) = 0 THEN rules
  ELSE
    LET node == visited[1]
    IN  IF node.type = "Atrule" /\ node.name = str_media /\ node.prelude # <<>>
          THEN ExtractWalk(Tail(visited), node.prelude, rules,
                           enableBEM, preserveComments)
          ELSE ExtractWalk(Tail(visited), currentMediaQuery,
                           rules \o RulesOfNode(node, currentMediaQuery,
                                                enableBEM, preserveComments),
                           enableBEM, preserveComments)

\* the predicate of rules.filter(...), which drops orphaned keyframe steps
KeepsRule(rule) ==
  \/ StartsWith(rule.selector, str_at_keyframes)
  \/ StartsWith(rule.selector, str_at_webkit_keyframes)
  \/ ~IsKeyframeStepSelector(rule.selector)

extractRules(ast, enableBEM, preserveComments) ==
  SelectSeq(ExtractWalk(Walk(ast), <<>>, <<>>, enableBEM, preserveComments),
            KeepsRule)

(***************************************************************************)
(* Variable extraction: categorizeValue and generateVariableName           *)
(***************************************************************************)
\* the character map of String.prototype.toLowerCase
LowerOf(c) ==
  CASE c = "A" -> "a" [] c = "B" -> "b" [] c = "C" -> "c" [] c = "D" -> "d"
    [] c = "E" -> "e" [] c = "F" -> "f" [] c = "G" -> "g" [] c = "H" -> "h"
    [] c = "I" -> "i" [] c = "J" -> "j" [] c = "K" -> "k" [] c = "L" -> "l"
    [] c = "M" -> "m" [] c = "N" -> "n" [] c = "O" -> "o" [] c = "P" -> "p"
    [] c = "Q" -> "q" [] c = "R" -> "r" [] c = "S" -> "s" [] c = "T" -> "t"
    [] c = "U" -> "u" [] c = "V" -> "v" [] c = "W" -> "w" [] c = "X" -> "x"
    [] c = "Y" -> "y" [] c = "Z" -> "z" [] OTHER -> c

ToLowerCase(s) == [i \in 1..Len(s) |-> LowerOf(s[i])]

colorProperties ==
  {<<"c","o","l","o","r">>, <<"b","a","c","k","g","r","o","u","n","d","-","c","o","l","o","r">>, <<"b","o","r","d","e","r","-","c","o","l","o","r">>, <<"o","u","t","l","i","n","e","-","c","o","l","o","r">>,
   <<"t","e","x","t","-","d","e","c","o","r","a","t","i","o","n","-","c","o","l","o","r">>, <<"c","a","r","e","t","-","c","o","l","o","r">>, <<"c","o","l","u","m","n","-","r","u","l","e","-","c","o","l","o","r">>,
   <<"b","o","r","d","e","r","-","t","o","p","-","c","o","l","o","r">>, <<"b","o","r","d","e","r","-","r","i","g","h","t","-","c","o","l","o","r">>, <<"b","o","r","d","e","r","-","b","o","t","t","o","m","-","c","o","l","o","r">>,
   <<"b","o","r","d","e","r","-","l","e","f","t","-","c","o","l","o","r">>}

isColorProperty(property) == property \in colorProperties

namedColors ==
  {<<"r","e","d">>, <<"b","l","u","e">>, <<"g","r","e","e","n">>, <<"y","e","l","l","o","w">>, <<"o","r","a","n","g","e">>, <<"p","u","r","p","l","e">>, <<"p","i","n","k">>, <<"b","r","o","w","n">>,
   <<"b","l","a","c","k">>, <<"w","h","i","t","e">>, <<"g","r","a","y">>, <<"g","r","e","y">>, <<"t","r","a","n","s","p","a","r","e","n","t">>, <<"c","u","r","r","e","n","t","C","o","l","o","r">>}

isColorValue(value) ==
  \/ /\ Len(value) \in {4, 7, 9}
     /\ value[1] = "#"
     /\ \A k \in 2..Len(value) : value[k] \in HexDigits
  \/ StartsWith(value, <<"r","g","b","(">>) \/ StartsWith(value, <<"r","g","b","a","(">>)
  \/ StartsWith(value, <<"h","s","l","(">>) \/ StartsWith(value, <<"h","s","l","a","(">>)
  \/ ToLowerCase(value) \in namedColors

sizeProperties ==
  {<<"w","i","d","t","h">>, <<"h","e","i","g","h","t">>, <<"m","i","n","-","w","i","d","t","h">>, <<"m","i","n","-","h","e","i","g","h","t">>, <<"m","a","x","-","w","i","d","t","h">>, <<"m","a","x","-","h","e","i","g","h","t">>,
   <<"p","a","d","d","i","n","g">>, <<"p","a","d","d","i","n","g","-","t","o","p">>, <<"p","a","d","d","i","n","g","-","r","i","g","h","t">>, <<"p","a","d","d","i","n","g","-","b","o","t","t","o","m">>, <<"p","a","d","d","i","n","g","-","l","e","f","t">>,
   <<"m","a","r","g","i","n">>, <<"m","a","r","g","i","n","-","t","o","p">>, <<"m","a","r","g","i","n","-","r","i","g","h","t">>, <<"m","a","r","g","i","n","-","b","o","t","t","o","m">>, <<"m","a","r","g","i","n","-","l","e","f","t">>,
   <<"b","o","r","d","e","r","-","w","i","d","t","h">>, <<"b","o","r","d","e","r","-","r","a","d","i","u","s">>, <<"f","o","n","t","-","s","i","z","e">>, <<"l","i","n","e","-","h","e","i","g","h","t">>, <<"l","e","t","t","e","r","-","s","p","a","c","i","n","g">>,
   <<"t","o","p">>, <<"r","i","g","h","t">>, <<"b","o","t","t","o","m">>, <<"l","e","f","t">>, <<"g","a","p">>, <<"c","o","l","u","m","n","-","g","a","p">>, <<"r","o","w","-","g","a","p">>}

isSizeProperty(property) == property \in sizeProperties

sizeUnits ==
  {<<"p","x">>, <<"e","m">>, <<"r","e","m">>, <<"%">>, <<"v","h">>, <<"v","w">>, <<"v","m","i","n">>, <<"v","m","a","x">>, <<"p","t">>, <<"p","c">>, <<"i","n">>,
   <<"c","m">>, <<"m","m">>, <<"e","x">>, <<"c","h">>}

\* /^\d+(\.\d+)?(px|em|...)$/
isSizeValue(value) ==
  LET a == RunEnd(value, 1, Digits)
      b == IF a + 2 <= Len(value) /\ value[a + 1] = "."
                /\ value[a + 2] \in Digits
             THEN RunEnd(value, a + 2, Digits)
             ELSE a
  IN  /\ a >= 1
      /\ Drop(value, b) \in sizeUnits

fontProperties ==
  {<<"f","o","n","t","-","f","a","m","i","l","y">>, <<"f","o","n","t","-","w","e","i","g","h","t">>, <<"f","o","n","t","-","s","t","y","l","e">>, <<"f","o","n","t","-","v","a","r","i","a","n","t">>,
   <<"f","o","n","t","-","s","t","r","e","t","c","h">>, <<"f","o","n","t","-","s","i","z","e">>, <<"l","i","n","e","-","h","e","i","g","h","t">>}

isFontProperty(property) == property \in fontProperties

categorizeValue(property, value) ==
  IF isColorProperty(property) \/ isColorValue(value) THEN "color"
  ELSE IF isSizeProperty(property) \/ isSizeValue(value) THEN "size"
  ELSE IF isFontProperty(property) THEN "font"
  ELSE "other"

shouldExtractCategory(options, category) ==
  CASE category = "color" -> options.extractColors
    [] category = "size" -> options.extractSizes
    [] category = "font" -> options.extractFonts
    [] category = "other" -> options.extractOthers
    [] OTHER -> FALSE

\* colorMap of getSemanticColorName, as pairs <<hex, name>>
colorMap ==
  {<<<<"#","0","0","0","0","0","0">>, <<"b","l","a","c","k">>>>, <<<<"#","f","f","f","f","f","f">>, <<"w","h","i","t","e">>>>, <<<<"#","f","f","0","0","0","0">>, <<"r","e","d">>>>,
   <<<<"#","0","0","f","f","0","0">>, <<"g","r","e","e","n">>>>, <<<<"#","0","0","0","0","f","f">>, <<"b","l","u","e">>>>, <<<<"#","f","f","f","f","0","0">>, <<"y","e","l","l","o","w">>>>,
   <<<<"#","f","f","0","0","f","f">>, <<"m","a","g","e","n","t","a">>>>, <<<<"#","0","0","f","f","f","f">>, <<"c","y","a","n">>>>, <<<<"#","8","0","8","0","8","0">>, <<"g","r","a","y">>>>,
   <<<<"#","c","0","c","0","c","0">>, <<"s","i","l","v","e","r">>>>, <<<<"#","8","0","0","0","0","0">>, <<"m","a","r","o","o","n">>>>, <<<<"#","0","0","8","0","0","0">>, <<"d","a","r","k","-","g","r","e","e","n">>>>,
   <<<<"#","0","0","0","0","8","0">>, <<"n","a","v","y">>>>, <<<<"#","8","0","8","0","0","0">>, <<"o","l","i","v","e">>>>, <<<<"#","8","0","0","0","8","0">>, <<"p","u","r","p","l","e">>>>,
   <<<<"#","0","0","8","0","8","0">>, <<"t","e","a","l">>>>, <<<<"#","0","0","7","b","f","f">>, <<"p","r","i","m","a","r","y","-","b","l","u","e">>>>,
   <<<<"#","2","8","a","7","4","5">>, <<"s","u","c","c","e","s","s","-","g","r","e","e","n">>>>, <<<<"#","d","c","3","5","4","5">>, <<"d","a","n","g","e","r","-","r","e","d">>>>,
   <<<<"#","f","f","c","1","0","7">>, <<"w","a","r","n","i","n","g","-","y","e","l","l","o","w">>>>, <<<<"#","1","7","a","2","b","8">>, <<"i","n","f","o","-","c","y","a","n">>>>,
   <<<<"#","6","c","7","5","7","d">>, <<"s","e","c","o","n","d","a","r","y","-","g","r","a","y">>>>, <<<<"#","f","8","f","9","f","a">>, <<"l","i","g","h","t","-","g","r","a","y">>>>,
   <<<<"#","3","4","3","a","4","0">>, <<"d","a","r","k","-","g","r","a","y">>>>}

\* the semantic name, <<>> for null
getSemanticColorName(hexColor) ==
  LET hits == {e \in colorMap : e[1] = ToLowerCase(hexColor)}
  IN  IF hits = {} THEN <<>> ELSE (CHOOSE e \in hits : TRUE)[2]

\* .replace(/-+/g, '-')
RECURSIVE CollapseHyphens(_)
CollapseHyphens(s) ==
  IF Len(s) = 0 THEN <<>>
  ELSE IF s[1] = "-" THEN <<"-">> \o CollapseHyphens(Drop(s, RunEnd(s, 1, {"-"})))
  ELSE <<s[1]>> \o CollapseHyphens(Tail(s))

\* .replace(/^-|-$/g, '')
StripEdgeHyphens(s) ==
  LET a == IF Len(s) >= 1 /\ s[1] = "-" THEN Tail(s) ELSE s
  IN  IF Len(a) >= 1 /\ a[Len(a)] = "-" THEN Take(a, Len(a) - 1) ELSE a

CleanValue(value) ==
  ToLowerCase(StripEdgeHyphens(CollapseHyphens(
    [i \in 1..Len(value) |-> IF value[i] \in AlphaNum THEN value[i] ELSE "-"])))

generateVariableName(prefix, property, value, category) ==
  LET cleanValue == CleanValue(value)
  IN  CASE category = "color" ->
             IF Len(value) >= 1 /\ value[1] = "#"
               THEN LET colorName == getSemanticColorName(value)
                    IN  prefix \o <<"c","o","l","o","r","-">>
                          \o (IF colorName # <<>> THEN colorName ELSE cleanValue)
             ELSE IF value = <<"i","n","h","e","r","i","t">> THEN prefix \o <<"c","o","l","o","r","-","i","n","h","e","r","i","t">>
             ELSE IF value = <<"t","r","a","n","s","p","a","r","e","n","t">> THEN prefix \o <<"c","o","l","o","r","-","t","r","a","n","s","p","a","r","e","n","t">>
             ELSE prefix \o <<"c","o","l","o","r","-">> \o cleanValue
        [] category = "size" ->
             IF value = <<"i","n","h","e","r","i","t">> THEN prefix \o <<"s","i","z","e","-","i","n","h","e","r","i","t">>
             ELSE IF value = <<"a","u","t","o">> THEN prefix \o <<"s","i","z","e","-","a","u","t","o">>
             ELSE IF value = <<"0">> THEN prefix \o <<"s","i","z","e","-","0">>
             ELSE IF value = <<"1","0","0","%">> THEN prefix \o <<"s","i","z","e","-","f","u","l","l">>
             ELSE IF Includes(property, <<"f","o","n","t","-","s","i","z","e">>) THEN prefix \o <<"t","e","x","t","-">> \o cleanValue
             ELSE IF Includes(property, <<"p","a","d","d","i","n","g">>) THEN prefix \o <<"p","-">> \o cleanValue
             ELSE IF Includes(property, <<"m","a","r","g","i","n">>) THEN prefix \o <<"m","-">> \o cleanValue
             ELSE IF Includes(property, <<"b","o","r","d","e","r","-","r","a","d","i","u","s">>)
               THEN prefix \o <<"r","o","u","n","d","e","d","-">> \o cleanValue
             ELSE IF Includes(property, <<"w","i","d","t","h">>) \/ Includes(property, <<"h","e","i","g","h","t">>)
               THEN prefix \o <<"s","i","z","e","-">> \o cleanValue
             ELSE prefix \o <<"s","p","a","c","i","n","g","-">> \o cleanValue
        [] category = "font" ->
             IF property = <<"f","o","n","t","-","s","i","z","e">> THEN prefix \o <<"t","e","x","t","-">> \o cleanValue
             ELSE prefix \o <<"f","o","n","t","-">> \o cleanValue
        [] OTHER ->
             IF value = <<"n","o","n","e">> THEN prefix \o property \o <<"-","n","o","n","e">>
             ELSE IF value = <<"i","n","h","e","r","i","t">> THEN prefix \o property \o <<"-","i","n","h","e","r","i","t">>
             ELSE IF value = <<"a","u","t","o">> THEN prefix \o property \o <<"-","a","u","t","o">>
             ELSE prefix \o property \o <<"-">> \o cleanValue

(***************************************************************************)
(* analyzeVariableCandidates, extractVariables, replaceValuesWithVariables *)
(* The Maps variableCandidates and extractedVariables are sequences of     *)
(* entries [key, ...] in insertion order.                                  *)
(***************************************************************************)
\* the declarations rules.forEach(rule => rule.declarations.forEach(...)) visits
RECURSIVE AllDeclarations(_)
AllDeclarations(rules) ==
  IF Len(rules) = 0 THEN <<>>
  ELSE rules[1].declarations \o AllDeclarations(Tail(rules))

\* `${decl.property}:${decl.value}`
CandidateKey(property, value) == property \o <<":">> \o value

\* the position of a Map key, 0 when map.has(key) is false
IndexOfKey(entries, key) ==
  LET hits == {i \in 1..Len(entries) : entries[i].key = key}
  IN  IF hits = {} THEN 0 ELSE CHOOSE i \in hits : TRUE

RECURSIVE AnalyzeDeclarations(_, _, _, _)
AnalyzeDeclarations(options, decls, valueOccurrences, candidates) ==
  IF Len(decls) = 0 THEN candidates
  ELSE
    LET decl == decls[1]
        category == categorizeValue(decl.property, decl.value)
    IN  IF ~(decl.type = "declaration" /\ decl.property # <<>> /\ decl.value # <<>>)
             \/ ~shouldExtractCategory(options, category)
          THEN AnalyzeDeclarations(options, Tail(decls), valueOccurrences, candidates)
          ELSE
            LET key == CandidateKey(decl.property, decl.value)
                i == IndexOfKey(valueOccurrences, key)
                count == IF i = 0 THEN 1 ELSE valueOccurrences[i].count + 1
                occurrences1 ==
                  IF i = 0 THEN Append(valueOccurrences, [key |-> key, count |-> 1])
                  ELSE [valueOccurrences EXCEPT ![i].count = count]
                candidates1 ==
                  IF IndexOfKey(candidates, key) = 0
                    THEN Append(candidates,
                           [key |-> key, value |-> decl.value,
                            property |-> decl.property, occurrences |-> 0,
                            category |-> category,
                            suggestedName |->
                              generateVariableName(options.variablePrefix,
                                decl.property, decl.value, category)])
                    ELSE candidates
                j == IndexOfKey(candidates1, key)
            IN  AnalyzeDeclarations(options, Tail(decls), occurrences1,
                  [candidates1 EXCEPT ![j].occurrences = count])

analyzeVariableCandidates(options, rules, candidates) ==
  AnalyzeDeclarations(options, AllDeclarations(rules), <<>>, candidates)

\* valueGroups: the candidates that reach minOccurrences, grouped by
\* `${category}:${value}` in Map order
RECURSIVE GroupCandidates(_, _, _)
GroupCandidates(options, candidates, valueGroups) ==
  IF Len(candidates) = 0 THEN valueGroups
  ELSE
    LET candidate == candidates[1]
        valueKey == <<candidate.category, candidate.value>>
        i == IndexOfKey(valueGroups, valueKey)
    IN  IF candidate.occurrences >= options.minOccurrences
          THEN GroupCandidates(options, Tail(candidates),
                 IF i = 0
                   THEN Append(valueGroups,
                               [key |-> valueKey, candidates |-> <<candidate>>])
                   ELSE [valueGroups EXCEPT
                           ![i].candidates = Append(@, candidate)])
          ELSE GroupCandidates(options, Tail(candidates), valueGroups)

\* candidates.sort((a, b) => b.occurrences - a.occurrences)[0]: the sort is
\* stable, so the first candidate with the highest count
BestCandidate(candidates) ==
  LET top == {i \in 1..Len(candidates) :
                \A k \in 1..Len(candidates) :
                  candidates[k].occurrences <= candidates[i].occurrences}
  IN  candidates[CHOOSE i \in top : \A k \in top : i <= k]

RECURSIVE SumOccurrences(_)
SumOccurrences(candidates) ==
  IF Len(candidates) = 0 THEN 0
  ELSE candidates[1].occurrences + SumOccurrences(Tail(candidates))

\* the decimal digits of a natural number
RECURSIVE DecimalString(_)
DecimalString(n) ==
  LET d == <<"0","1","2","3","4","5","6","7","8","9">>
  IN  IF n < 10 THEN <<d[n + 1]>>
      ELSE DecimalString(n \div 10) \o <<d[(n % 10) + 1]>>

\* the name after n turns of the uniqueness loop
NameAttempt(suggestedName, n) ==
  IF n = 0 THEN suggestedName
  ELSE suggestedName \o <<"-">> \o DecimalString(n)

\* extractVariables without its while loop: the suggested name as it is
UniqueVariableName_NoLoop(suggestedName, extracted) == suggestedName

\* the while loop: the first attempt no extracted variable carries
UniqueVariableName(suggestedName, extracted) ==
  LET taken == {extracted[i].name : i \in 1..Len(extracted)}
      n == CHOOSE n \in 0..Len(extracted) :
             /\ NameAttempt(suggestedName, n) \notin taken
             /\ \A k \in 0..(n - 1) : NameAttempt(suggestedName, k) \in taken
  IN  NameAttempt(suggestedName, n)

\* map.set(key, entry)
MapSet(entries, entry) ==
  LET i == IndexOfKey(entries, entry.key)
  IN  IF i = 0 THEN Append(entries, entry) ELSE [entries EXCEPT ![i] = entry]

RECURSIVE ExtractGroups(_, _)
ExtractGroups(valueGroups, extracted) ==
  IF Len(valueGroups) = 0 THEN extracted
  ELSE
    LET candidates == valueGroups[1].candidates
        bestCandidate == BestCandidate(candidates)
        totalOccurrences == SumOccurrences(candidates)
        variableName == UniqueVariableName(bestCandidate.suggestedName, extracted)
    IN  ExtractGroups(Tail(valueGroups),
          MapSet(extracted,
            [key |-> CandidateKey(bestCandidate.property, bestCandidate.value),
             name |-> variableName, value |-> bestCandidate.value,
             category |-> bestCandidate.category,
             occurrences |-> totalOccurrences]))

\* extractVariables with the threshold put on a group's summed count
extractVariables_ByTotal(options, candidates, extracted) ==
  LET groups == GroupCandidates([options EXCEPT !.minOccurrences = 0],
                                candidates, <<>>)
      Reaches(group) == SumOccurrences(group.candidates) >= options.minOccurrences
  IN  ExtractGroups(SelectSeq(groups, Reaches), extracted)

\* extractVariables with `>` for `>=` in the threshold
extractVariables_Strict(options, candidates, extracted) ==
  ExtractGroups(
    GroupCandidates([options EXCEPT !.minOccurrences = @ + 1], candidates, <<>>),
    extracted)

extractVariables(options, candidates, extracted) ==
  ExtractGroups(GroupCandidates(options, candidates, <<>>), extracted)

\* valueToVariable.get(value): the name of the last extracted variable with
\* that value, <<>> for undefined
ValueToVariable(extracted, value) ==
  LET hits == {i \in 1..Len(extracted) : extracted[i].value = value}
  IN  IF hits = {} THEN <<>>
      ELSE extracted[CHOOSE i \in hits : \A k \in hits : k <= i].name

\* ReplaceDeclaration without the check of the declaration's category
ReplaceDeclaration_AnyCategory(options, extracted, decl) ==
  LET variableName == ValueToVariable(extracted, decl.value)
  IN  IF /\ decl.type = "declaration" /\ decl.property # <<>> /\ decl.value # <<>>
         /\ decl.property # str_keyframes_block
         /\ variableName # <<>>
        THEN [decl EXCEPT !.originalValue = decl.value, !.value = variableName]
        ELSE decl

\* ReplaceDeclaration without the skip of the keyframes-block property
ReplaceDeclaration_Keyframes(options, extracted, decl) ==
  LET variableName == ValueToVariable(extracted, decl.value)
  IN  IF /\ decl.type = "declaration" /\ decl.property # <<>> /\ decl.value # <<>>
         /\ variableName # <<>>
         /\ shouldExtractCategory(options,
                                  categorizeValue(decl.property, decl.value))
        THEN [decl EXCEPT !.originalValue = decl.value, !.value = variableName]
        ELSE decl

ReplaceDeclaration(options, extracted, decl) ==
  LET variableName == ValueToVariable(extracted, decl.value)
  IN  IF /\ decl.type = "declaration" /\ decl.property # <<>> /\ decl.value # <<>>
         /\ decl.property # str_keyframes_block
         /\ variableName # <<>>
         /\ shouldExtractCategory(options,
                                  categorizeValue(decl.property, decl.value))
        THEN [decl EXCEPT !.originalValue = decl.value, !.value = variableName]
        ELSE decl

replaceValuesWithVariables(options, extracted, rules) ==
  [r \in 1..Len(rules) |->
     [rules[r] EXCEPT !.declarations =
        [d \in 1..Len(rules[r].declarations) |->
           ReplaceDeclaration(options, extracted, rules[r].declarations[d])]]]

(***************************************************************************)
(* detectAndMergeDuplicates and groupByMediaQuery                          *)
(***************************************************************************)
\* the printable ASCII characters, but the double quote and the backquote,
\* in code order
\* (Array.prototype.sort compares strings by UTF-16 code unit)
AsciiOrder ==
  <<" ","!","#","$","%","&","'","(",")","*","+",",","-",".","/",
    "0","1","2","3","4","5","6","7","8","9",":",";","<","=",">","?","@",
    "A","B","C","D","E","F","G","H","I","J","K","L","M",
    "N","O","P","Q","R","S","T","U","V","W","X","Y","Z",
    "[","\\","]","^","_",
    "a","b","c","d","e","f","g","h","i","j","k","l","m",
    "n","o","p","q","r","s","t","u","v","w","x","y","z",
    "{","|","}","~">>

CharCode(c) == CHOOSE i \in 1..Len(AsciiOrder) : AsciiOrder[i] = c

\* a < b in code unit order
RECURSIVE CodeUnitLess(_, _)
CodeUnitLess(a, b) ==
  IF Len(b) = 0 THEN FALSE
  ELSE IF Len(a) = 0 THEN TRUE
  ELSE IF a[1] = b[1] THEN CodeUnitLess(Tail(a), Tail(b))
  ELSE CharCode(a[1]) < CharCode(b[1])

\* Array.prototype.sort() of strings
RECURSIVE SortStrings(_)
SortStrings(strs) ==
  IF Len(strs) <= 1 THEN strs
  ELSE
    LET rest == SortStrings(Tail(strs))
        before == {i \in 1..Len(rest) : ~CodeUnitLess(strs[1], rest[i])}
        n == Cardinality(before)
    IN  Take(rest, n) \o <<strs[1]>> \o Drop(rest, n)

\* `${d.property}:${d.value}${d.important ? '!important' : ''}`
DeclarationString(d) ==
  d.property \o <<":">> \o d.value
    \o (IF d.important THEN <<"!","i","m","p","o","r","t","a","n","t">> ELSE <<>>)

IsDeclaration(d) == d.type = "declaration"

generateDeclarationHash(declarations) ==
  LET decls == SelectSeq(declarations, IsDeclaration)
  IN  Join(SortStrings([i \in 1..Len(decls) |-> DeclarationString(decls[i])]),
           <<";">>)

\* declarationsEqual without the comparison of the lengths
declarationsEqual_HashOnly(decls1, decls2) ==
  generateDeclarationHash(decls1) = generateDeclarationHash(decls2)

declarationsEqual(decls1, decls2) ==
  /\ Len(decls1) = Len(decls2)
  /\ generateDeclarationHash(decls1) = generateDeclarationHash(decls2)

\* mediaQueryGroups: Map<mediaKey, Map<declHash, ParsedRule[]>>
RECURSIVE GroupByMediaAndHash(_, _)
GroupByMediaAndHash(rules, mediaQueryGroups) ==
  IF Len(rules) = 0 THEN mediaQueryGroups
  ELSE
    LET rule == rules[1]
        mediaKey == IF rule.mediaQuery # <<>> THEN rule.mediaQuery ELSE str_default
        groups1 == IF IndexOfKey(mediaQueryGroups, mediaKey) = 0
                     THEN Append(mediaQueryGroups,
                                 [key |-> mediaKey, buckets |-> <<>>])
                     ELSE mediaQueryGroups
        m == IndexOfKey(groups1, mediaKey)
        declHash == generateDeclarationHash(rule.declarations)
        buckets1 == IF IndexOfKey(groups1[m].buckets, declHash) = 0
                      THEN Append(groups1[m].buckets,
                                  [key |-> declHash, rules |-> <<>>])
                      ELSE groups1[m].buckets
        h == IndexOfKey(buckets1, declHash)
    IN  GroupByMediaAndHash(Tail(rules),
          [groups1 EXCEPT ![m].buckets =
             [buckets1 EXCEPT ![h].rules = Append(@, rule)]])

\* what one hash bucket contributes to mergedRules
MergeBucket(mediaKey, bucket) ==
  LET duplicateRules == bucket.rules
      mediaQuery == IF mediaKey = str_default THEN <<>> ELSE mediaKey
      unmerged == [i \in 1..Len(duplicateRules) |->
                     [duplicateRules[i] EXCEPT !.mediaQuery = mediaQuery]]
      allIdentical ==
        \A i \in 1..Len(duplicateRules) :
          declarationsEqual(duplicateRules[i].declarations,
                            duplicateRules[1].declarations)
  IN  IF Len(duplicateRules) > 1 /\ duplicateRules[1].selector # str_COMMENT
           /\ allIdentical
        THEN <<[duplicateRules[1] EXCEPT
                  !.selector = Join([i \in 1..Len(duplicateRules) |->
                                       duplicateRules[i].selector], <<","," ">>),
                  !.mediaQuery = mediaQuery]>>
        ELSE unmerged

RECURSIVE MergeBuckets(_, _)
MergeBuckets(mediaKey, buckets) ==
  IF Len(buckets) = 0 THEN <<>>
  ELSE MergeBucket(mediaKey, buckets[1]) \o MergeBuckets(mediaKey, Tail(buckets))

RECURSIVE MergeMediaGroups(_)
MergeMediaGroups(mediaQueryGroups) ==
  IF Len(mediaQueryGroups) = 0 THEN <<>>
  ELSE MergeBuckets(mediaQueryGroups[1].key, mediaQueryGroups[1].buckets)
         \o MergeMediaGroups(Tail(mediaQueryGroups))

detectAndMergeDuplicates(rules) ==
  MergeMediaGroups(GroupByMediaAndHash(rules, <<>>))

\* MediaQueryGroup[]: entries [key |-> query, rules]
RECURSIVE groupByMediaQuery(_, _)
groupByMediaQuery(rules, groups) ==
  IF Len(rules) = 0 THEN groups
  ELSE
    LET key == rules[1].mediaQuery
        groups1 == IF IndexOfKey(groups, key) = 0
                     THEN Append(groups, [key |-> key, rules |-> <<>>])
                     ELSE groups
        i == IndexOfKey(groups1, key)
    IN  groupByMediaQuery(Tail(rules),
                          [groups1 EXCEPT ![i].rules = Append(@, rules[1])])

(***************************************************************************)
(* The NestedRule tree.  A node is [path, declarations]; its selector is   *)
(* the last key of its path (every children.set(key, node) of the source   *)
(* uses the node's selector as the key).  The bemInfo the builders store   *)
(* on nodes is never read and is left out.                                 *)
(***************************************************************************)
\* { selector: '', declarations: [], children: new Map() }
EmptyTree == <<[path |-> <<>>, declarations |-> <<>>]>>

NodeIndex(tree, path) ==
  LET hits == {i \in 1..Len(tree) : tree[i].path = path}
  IN  IF hits = {} THEN 0 ELSE CHOOSE i \in hits : TRUE

\* parent.children.has(key), with path = the parent's path plus the key
HasNode(tree, path) == NodeIndex(tree, path) # 0

\* if (!parent.children.has(key)) parent.children.set(key, <empty node>)
EnsureNode(tree, path) ==
  IF HasNode(tree, path) THEN tree
  ELSE Append(tree, [path |-> path, declarations |-> <<>>])

\* node.declarations.push(...declarations)
PushDeclarations(tree, path, declarations) ==
  [tree EXCEPT ![NodeIndex(tree, path)].declarations = @ \o declarations]

IsStrictPrefix(p, q) == Len(p) < Len(q) /\ SubSeq(q, 1, Len(p)) = p

\* parent.children.set(key, { selector, declarations: [...], children: new Map() }):
\* a present key keeps its place, and its old node, with all below it, is gone
SetNode(tree, path, declarations) ==
  LET fresh == [path |-> path, declarations |-> declarations]
      i == NodeIndex(tree, path)
      NotBelow(n) == ~IsStrictPrefix(path, n.path)
  IN  IF i = 0 THEN Append(tree, fresh)
      ELSE SelectSeq([tree EXCEPT ![i] = fresh], NotBelow)

\* insertComplexNestedRule
RECURSIVE EnsureChain(_, _, _)
EnsureChain(tree, path, selectorParts) ==
  IF Len(selectorParts) = 0 THEN tree
  ELSE EnsureChain(EnsureNode(tree, Append(path, selectorParts[1])),
                   Append(path, selectorParts[1]), Tail(selectorParts))

insertComplexNestedRule(tree, selectorParts, declarations, parent) ==
  PushDeclarations(EnsureChain(tree, parent, selectorParts),
                   parent \o selectorParts, declarations)

(***************************************************************************)
(* Smart nesting                                                           *)
(***************************************************************************)
extractBasePattern(selector) ==
  IF Includes(selector, <<",">>) THEN selector
  ELSE LET i == FirstIn(selector, Combinators)
           firstPart == Trim(IF i = 0 THEN selector ELSE Take(selector, i - 1))
       IN  StripPseudo(firstPart)

IsAtRuleSelector(selector) == StartsWith(selector, <<"@">>)

\* Map<pattern, ParsedRule[]>: entries [key |-> pattern, rules]
RECURSIVE groupRulesByPattern(_, _)
groupRulesByPattern(rules, groups) ==
  IF Len(rules) = 0 THEN groups
  ELSE
    LET rule == rules[1]
        pattern == IF rule.selector = str_COMMENT THEN str_COMMENTS
                   ELSE IF IsAtRuleSelector(rule.selector) THEN rule.selector
                   ELSE extractBasePattern(rule.selector)
        groups1 == IF IndexOfKey(groups, pattern) = 0
                     THEN Append(groups, [key |-> pattern, rules |-> <<>>])
                     ELSE groups
        i == IndexOfKey(groups1, pattern)
    IN  groupRulesByPattern(Tail(rules),
                            [groups1 EXCEPT ![i].rules = Append(@, rule)])

\* basePattern.replace(/[.#]/, ''): the first "." or "#" only
RemoveFirstDotOrHash(s) ==
  LET i == FirstIn(s, {".", "#"})
  IN  IF i = 0 THEN s ELSE Take(s, i - 1) \o Drop(s, i)

parseComplexSelector(selector, basePattern) ==
  LET parts == SplitWhitespace(selector)
      needle == RemoveFirstDotOrHash(basePattern)
      hits == {i \in 1..Len(parts) : Includes(parts[i], needle)}
  IN  IF hits = {} THEN parts
      ELSE Drop(parts, CHOOSE i \in hits : \A k \in hits : i <= k)

\* insertSmartNestedRule with the prefix branch taken out: a selector that
\* extends the base pattern goes through parseComplexSelector
insertSmartNestedRule_Chain(tree, rule, basePattern) ==
  LET selector == rule.selector
      baseNode == <<basePattern>>
  IN  IF Includes(selector, <<",">>) \/ selector = basePattern
        THEN PushDeclarations(tree, baseNode, rule.declarations)
      ELSE insertComplexNestedRule(tree, parseComplexSelector(selector, basePattern),
                                   rule.declarations, baseNode)

\* baseNode is the root child with key basePattern
insertSmartNestedRule(tree, rule, basePattern) ==
  LET selector == rule.selector
      baseNode == <<basePattern>>
  IN  IF Includes(selector, <<",">>) \/ selector = basePattern
        THEN PushDeclarations(tree, baseNode, rule.declarations)
      ELSE IF StartsWith(selector, basePattern)
        THEN LET nestedSelector == <<"&">> \o Drop(selector, Len(basePattern))
             IN  PushDeclarations(EnsureNode(tree, <<basePattern, nestedSelector>>),
                                  <<basePattern, nestedSelector>>, rule.declarations)
      ELSE insertComplexNestedRule(tree, parseComplexSelector(selector, basePattern),
                                   rule.declarations, baseNode)

RECURSIVE InsertSmartRules(_, _, _)
InsertSmartRules(tree, rules, basePattern) ==
  IF Len(rules) = 0 THEN tree
  ELSE InsertSmartRules(insertSmartNestedRule(tree, rules[1], basePattern),
                        Tail(rules), basePattern)

\* the at-rule branch: root.children.set(rule.selector, child) per rule
RECURSIVE SetAtRules(_, _)
SetAtRules(tree, rules) ==
  IF Len(rules) = 0 THEN tree
  ELSE SetAtRules(SetNode(tree, <<rules[1].selector>>, rules[1].declarations),
                  Tail(rules))

buildSmartNestedGroup(tree, basePattern, rules) ==
  IF basePattern = str_COMMENTS
    THEN PushDeclarations(tree, <<>>, AllDeclarations(rules))
  ELSE IF IsAtRuleSelector(basePattern) THEN SetAtRules(tree, rules)
  ELSE InsertSmartRules(EnsureNode(tree, <<basePattern>>), rules, basePattern)

RECURSIVE BuildSmartGroups(_, _)
BuildSmartGroups(tree, ruleGroups) ==
  IF Len(ruleGroups) = 0 THEN tree
  ELSE BuildSmartGroups(
         buildSmartNestedGroup(tree, ruleGroups[1].key, ruleGroups[1].rules),
         Tail(ruleGroups))

buildSmartNestedStructure(rules, root) ==
  BuildSmartGroups(root, groupRulesByPattern(rules, <<>>))

(***************************************************************************)
(* Basic nesting                                                           *)
(***************************************************************************)
RECURSIVE buildBasicNestedStructure(_, _)
buildBasicNestedStructure(rules, root) ==
  IF Len(rules) = 0 THEN root
  ELSE buildBasicNestedStructure(Tail(rules),
         IF rules[1].selector = str_COMMENT
           THEN PushDeclarations(root, <<>>, rules[1].declarations)
           ELSE insertComplexNestedRule(root, SplitWhitespace(rules[1].selector),
                                        rules[1].declarations, <<>>))

(***************************************************************************)
(* BEM nesting                                                             *)
(***************************************************************************)
\* the pseudo branch shared by the add* methods: the rule's declarations go
\* to the child "&" + pseudoMatch[0] of node when the selector matches the
\* method's pseudo regex, to node itself otherwise.  excluded is the
\* character class the regex stops at.
AddWithPseudo(tree, node, rule, excluded) ==
  LET pseudoMatch == PseudoMatch(rule.selector, excluded)
      pseudoSelector == <<"&">> \o pseudoMatch
  IN  IF pseudoMatch # <<>>
        THEN PushDeclarations(EnsureNode(tree, Append(node, pseudoSelector)),
                              Append(node, pseudoSelector), rule.declarations)
        ELSE PushDeclarations(tree, node, rule.declarations)

\* rule.selector.match(/(:+[^,\\s]+)/)
addBEMBlockRule(tree, blockNode, rule) ==
  AddWithPseudo(tree, blockNode, rule, CommaBackslashS)

\* ElementChain with all the element levels in one key: "&__e1__e2"
ElementChain_OneKey(elements) ==
  IF Len(elements) = 0 THEN <<>>
  ELSE <<<<"&","_","_">> \o Join(elements, <<"_","_">>)>>

\* the "&__element" keys below the block, one per element level
ElementChain(elements) ==
  [i \in 1..Len(elements) |-> <<"&","_","_">> \o elements[i]]

\* addAdvancedBEMElement without its pseudo branch
addAdvancedBEMElement_NoPseudo(tree, blockNode, rule) ==
  IF Len(rule.bemInfo.elements) = 0 THEN tree
  ELSE LET chain == ElementChain(rule.bemInfo.elements)
       IN  PushDeclarations(EnsureChain(tree, blockNode, chain),
                            blockNode \o chain, rule.declarations)

\* rule.selector.match(/(:+[^,\s]+)/)
addAdvancedBEMElement(tree, blockNode, rule) ==
  IF Len(rule.bemInfo.elements) = 0 THEN tree
  ELSE LET chain == ElementChain(rule.bemInfo.elements)
       IN  AddWithPseudo(EnsureChain(tree, blockNode, chain),
                         blockNode \o chain, rule, CommaOrSpace)

addBEMModifier(tree, blockNode, rule) ==
  IF rule.bemInfo.modifier = <<>> THEN tree
  ELSE LET modifierSelector == <<"&","-","-">> \o rule.bemInfo.modifier
       IN  AddWithPseudo(EnsureNode(tree, Append(blockNode, modifierSelector)),
                         Append(blockNode, modifierSelector), rule, CommaBackslashS)

addAdvancedBEMElementModifier(tree, blockNode, rule) ==
  IF Len(rule.bemInfo.elements) = 0 \/ rule.bemInfo.modifier = <<>> THEN tree
  ELSE LET chain == ElementChain(rule.bemInfo.elements)
           modifierNode == (blockNode \o chain)
                             \o <<<<"&","-","-">> \o rule.bemInfo.modifier>>
       IN  AddWithPseudo(
             EnsureNode(EnsureChain(tree, blockNode, chain), modifierNode),
             modifierNode, rule, CommaBackslashS)

RECURSIVE AddBEMRules(_, _, _)
AddBEMRules(tree, blockNode, rules) ==
  IF Len(rules) = 0 THEN tree
  ELSE
    LET rule == rules[1]
        type == rule.bemInfo.type
    IN  AddBEMRules(
          CASE type = "block" -> addBEMBlockRule(tree, blockNode, rule)
            [] type = "element" -> addAdvancedBEMElement(tree, blockNode, rule)
            [] type = "modifier" -> addBEMModifier(tree, blockNode, rule)
            [] type = "element-modifier" ->
                 addAdvancedBEMElementModifier(tree, blockNode, rule)
            [] OTHER -> tree,
          blockNode, Tail(rules))

buildAdvancedBEMBlock(tree, blockName, rules) ==
  LET blockSelector == <<".">> \o blockName
  IN  AddBEMRules(EnsureNode(tree, <<blockSelector>>), <<blockSelector>>, rules)

RECURSIVE BuildBEMBlocks(_, _)
BuildBEMBlocks(tree, bemBlocks) ==
  IF Len(bemBlocks) = 0 THEN tree
  ELSE BuildBEMBlocks(
         buildAdvancedBEMBlock(tree, bemBlocks[1].key, bemBlocks[1].rules),
         Tail(bemBlocks))

\* bemBlocks: Map<blockName, ParsedRule[]>
RECURSIVE GroupByBlock(_, _)
GroupByBlock(rules, bemBlocks) ==
  IF Len(rules) = 0 THEN bemBlocks
  ELSE
    LET blockName == rules[1].bemInfo.block
        blocks1 == IF IndexOfKey(bemBlocks, blockName) = 0
                     THEN Append(bemBlocks, [key |-> blockName, rules |-> <<>>])
                     ELSE bemBlocks
        i == IndexOfKey(blocks1, blockName)
    IN  GroupByBlock(Tail(rules),
                     [blocks1 EXCEPT ![i].rules = Append(@, rules[1])])

IsCommentRule(rule) == rule.selector = str_COMMENT

IsAtRule(rule) == ~IsCommentRule(rule) /\ IsAtRuleSelector(rule.selector)

IsBEMRule(rule) ==
  ~IsCommentRule(rule) /\ ~IsAtRuleSelector(rule.selector)
    /\ rule.bemInfo.type # "none"

IsNonBEMRule(rule) ==
  ~IsCommentRule(rule) /\ ~IsAtRuleSelector(rule.selector)
    /\ rule.bemInfo.type = "none"

buildAdvancedBEMStructure(rules, root) ==
  LET withComments ==
        PushDeclarations(root, <<>>,
                         AllDeclarations(SelectSeq(rules, IsCommentRule)))
      withAtRules == SetAtRules(withComments, SelectSeq(rules, IsAtRule))
      withBlocks == BuildBEMBlocks(withAtRules,
                      GroupByBlock(SelectSeq(rules, IsBEMRule), <<>>))
      nonBemRules == SelectSeq(rules, IsNonBEMRule)
  IN  IF Len(nonBemRules) > 0
        THEN buildSmartNestedStructure(nonBemRules, withBlocks)
        ELSE withBlocks

buildAdvancedNestedStructure(options, rules) ==
  IF options.enableBEM THEN buildAdvancedBEMStructure(rules, EmptyTree)
  ELSE IF options.enableSmartNesting THEN buildSmartNestedStructure(rules, EmptyTree)
  ELSE buildBasicNestedStructure(rules, EmptyTree)

(***************************************************************************)
(* formatSCSS.  The text is a sequence of lines; a line keeps its          *)
(* indentation as a depth (getIndent(depth)) and its parts apart:          *)
(*   open     `${selector} {`            text = selector                   *)
(*   decl     `${property}: ${value}${important};`                         *)
(*   comment  `/* ${value} */`           text = value                      *)
(*   close    `}`                                                          *)
(*   blank    an empty line                                                *)
(*   header   a `// ...` line of formatVariables                           *)
(***************************************************************************)
Line(kind, depth, text, property, value, important) ==
  [kind |-> kind, depth |-> depth, text |-> text, property |-> property,
   value |-> value, important |-> important]

OpenLine(depth, selector) == Line("open", depth, selector, <<>>, <<>>, FALSE)

CloseLine(depth) == Line("close", depth, <<>>, <<>>, <<>>, FALSE)

BlankLine == Line("blank", 0, <<>>, <<>>, <<>>, FALSE)

CommentLine(depth, value) == Line("comment", depth, value, <<>>, <<>>, FALSE)

DeclLine(depth, property, value, important) ==
  Line("decl", depth, <<>>, property, value, important)

\* the length of the match of /(\d+%|from|to)\s*\{[^}]*\}/ at the start of s,
\* 0 when it does not match there
KeyframeRuleMatchLength(s) ==
  LET d == RunEnd(s, 1, Digits)
      head == IF d >= 1 /\ d < Len(s) /\ s[d + 1] = "%" THEN d + 1
              ELSE IF StartsWith(s, str_from) THEN Len(str_from)
              ELSE IF StartsWith(s, str_to) THEN Len(str_to)
              ELSE 0
      w == RunEnd(s, head + 1, Whitespace)
      e == RunEndNot(s, w + 2, {"}"})
  IN  IF head > 0 /\ w < Len(s) /\ s[w + 1] = "{" /\ e < Len(s) THEN e + 1 ELSE 0

\* keyframeContent.match(/(\d+%|from|to)\s*\{[^}]*\}/g)
RECURSIVE MatchKeyframeRules(_)
MatchKeyframeRules(s) ==
  IF Len(s) = 0 THEN <<>>
  ELSE LET n == KeyframeRuleMatchLength(s)
       IN  IF n > 0 THEN <<Take(s, n)>> \o MatchKeyframeRules(Drop(s, n))
           ELSE MatchKeyframeRules(Tail(s))

\* the lines of the declarations of one keyframe step: the first
\* declaration of a property is written, later ones are skipped
RECURSIVE KeyframeDeclLines(_, _, _)
KeyframeDeclLines(declPairs, seenProps, depth) ==
  IF Len(declPairs) = 0 THEN <<>>
  ELSE
    LET pieces == Split(declPairs[1], ":")
        prop == Trim(pieces[1])
        value == IF Len(pieces) >= 2 THEN Trim(pieces[2]) ELSE <<>>
    IN  IF prop # <<>> /\ value # <<>> /\ prop \notin seenProps
          THEN <<DeclLine(depth, prop, value, FALSE)>>
                 \o KeyframeDeclLines(Tail(declPairs), seenProps \cup {prop}, depth)
          ELSE KeyframeDeclLines(Tail(declPairs), seenProps, depth)

NonBlank(s) == Trim(s) # <<>>

\* rule.match(/^([\d%]+|from|to)\s*\{(.+)\}$/s)
formatKeyframeRule(rule, depth) ==
  LET d == RunEnd(rule, 1, Digits \cup {"%"})
      head == IF d >= 1 THEN d
              ELSE IF StartsWith(rule, str_from) THEN Len(str_from)
              ELSE IF StartsWith(rule, str_to) THEN Len(str_to)
              ELSE 0
      w == RunEnd(rule, head + 1, Whitespace)
      matches == /\ head > 0
                 /\ w + 3 <= Len(rule)
                 /\ rule[w + 1] = "{"
                 /\ rule[Len(rule)] = "}"
      declarations == SubSeq(rule, w + 2, Len(rule) - 1)
  IN  IF ~matches THEN <<>>
      ELSE <<OpenLine(depth, Take(rule, head))>>
             \o KeyframeDeclLines(SelectSeq(Split(declarations, ";"), NonBlank),
                                  {}, depth + 1)
             \o <<CloseLine(depth), BlankLine>>

\* decl.value.replace(/^\{|\}$/g, '').trim()
KeyframeContent(value) ==
  LET a == IF Len(value) >= 1 /\ value[1] = "{" THEN Tail(value) ELSE value
  IN  Trim(IF Len(a) >= 1 /\ a[Len(a)] = "}" THEN Take(a, Len(a) - 1) ELSE a)

RECURSIVE FormatKeyframeRules(_, _)
FormatKeyframeRules(keyframeRules, depth) ==
  IF Len(keyframeRules) = 0 THEN <<>>
  ELSE formatKeyframeRule(keyframeRules[1], depth)
         \o FormatKeyframeRules(Tail(keyframeRules), depth)

RECURSIVE KeyframeBlockLines(_, _)
KeyframeBlockLines(declarations, depth) ==
  IF Len(declarations) = 0 THEN <<>>
  ELSE (IF declarations[1].property = str_keyframes_block
          THEN FormatKeyframeRules(
                 MatchKeyframeRules(KeyframeContent(declarations[1].value)),
                 depth + 1)
          ELSE <<>>)
         \o KeyframeBlockLines(Tail(declarations), depth)

\* the declaration loop of an at-rule or a regular rule
RECURSIVE DeclarationLines(_, _)
DeclarationLines(declarations, depth) ==
  IF Len(declarations) = 0 THEN <<>>
  ELSE
    LET decl == declarations[1]
    IN  (IF decl.type = "comment" THEN <<CommentLine(depth, decl.value)>>
         ELSE IF decl.property # <<>> /\ decl.property # str_keyframes_block
           THEN <<DeclLine(depth, decl.property, decl.value, decl.important)>>
         ELSE <<>>)
          \o DeclarationLines(Tail(declarations), depth)

\* the regular-rule loop writes a declaration with any truthy property
RECURSIVE RuleDeclarationLines(_, _)
RuleDeclarationLines(declarations, depth) ==
  IF Len(declarations) = 0 THEN <<>>
  ELSE
    LET decl == declarations[1]
    IN  (IF decl.type = "comment" THEN <<CommentLine(depth, decl.value)>>
         ELSE IF decl.property # <<>>
           THEN <<DeclLine(depth, decl.property, decl.value, decl.important)>>
         ELSE <<>>)
          \o RuleDeclarationLines(Tail(declarations), depth)

\* structure.children: the nodes one key below path, in Map order
ChildrenOf(tree, path) ==
  LET IsChild(n) == Len(n.path) = Len(path) + 1 /\ SubSeq(n.path, 1, Len(path)) = path
  IN  SelectSeq(tree, IsChild)

RECURSIVE FormatChildren(_, _, _)
RECURSIVE formatSCSS(_, _, _)

FormatChildren(tree, children, depth) ==
  IF Len(children) = 0 THEN <<>>
  ELSE
    LET child == children[1]
        selector == child.path[Len(child.path)]
        grandchildren == ChildrenOf(tree, child.path)
        lines ==
          IF Len(child.declarations) = 0 /\ Len(grandchildren) = 0 THEN <<>>
          ELSE IF StartsWith(selector, str_at_keyframes)
                    \/ StartsWith(selector, str_at_webkit_keyframes)
            THEN <<OpenLine(depth, selector)>>
                   \o KeyframeBlockLines(child.declarations, depth)
                   \o <<CloseLine(depth), BlankLine>>
          ELSE IF StartsWith(selector, <<"@">>)
            THEN <<OpenLine(depth, selector)>>
                   \o DeclarationLines(child.declarations, depth + 1)
                   \o <<CloseLine(depth), BlankLine>>
          ELSE <<OpenLine(depth, selector)>>
                 \o RuleDeclarationLines(child.declarations, depth + 1)
                 \o (IF Len(grandchildren) > 0
                       THEN (IF Len(child.declarations) > 0 THEN <<BlankLine>>
                             ELSE <<>>)
                              \o formatSCSS(tree, child.path, depth + 1)
                       ELSE <<>>)
                 \o <<CloseLine(depth)>>
                 \o (IF depth = 0 THEN <<BlankLine>> ELSE <<>>)
    IN  lines \o FormatChildren(tree, Tail(children), depth)

IsCommentDeclaration(d) == d.type = "comment"

\* formatSCSS(structure, depth), structure being the node of tree at path
formatSCSS(tree, path, depth) ==
  LET structure == tree[NodeIndex(tree, path)]
      comments == SelectSeq(structure.declarations, IsCommentDeclaration)
  IN  (IF depth = 0 /\ Len(structure.declarations) > 0
         THEN [i \in 1..Len(comments) |-> CommentLine(0, comments[i].value)]
                \o <<BlankLine>>
         ELSE <<>>)
        \o FormatChildren(tree, ChildrenOf(tree, path), depth)

\* indentContent(content, 1): non-blank lines go one level deeper
indentContent(lines) ==
  [i \in 1..Len(lines) |->
     IF lines[i].kind = "blank" THEN lines[i]
     ELSE [lines[i] EXCEPT !.depth = @ + 1]]

(***************************************************************************)
(* formatVariables                                                         *)
(***************************************************************************)
\* The characters in the order of the root collation localeCompare uses
\* (punctuation, symbols, currency, digits, letters), letters by their
\* lower-case form.
CollationOrder ==
  <<" ","_","-",",",";",":","!","?",".","'","(",")","[","]","{","}","@","*",
    "/","\\","&","#","%","^","+","<","=",">","|","~","$",
    "0","1","2","3","4","5","6","7","8","9",
    "a","b","c","d","e","f","g","h","i","j","k","l","m",
    "n","o","p","q","r","s","t","u","v","w","x","y","z">>

CollationRank(c) ==
  CHOOSE i \in 1..Len(CollationOrder) : CollationOrder[i] = LowerOf(c)

\* a.localeCompare(b) < 0: by the letters first, a prefix before the
\* longer string; strings equal but for case, lower case first
RECURSIVE PrimaryCompare(_, _)
PrimaryCompare(a, b) ==
  IF Len(a) = 0 /\ Len(b) = 0 THEN 0
  ELSE IF Len(a) = 0 THEN -1
  ELSE IF Len(b) = 0 THEN 1
  ELSE IF CollationRank(a[1]) < CollationRank(b[1]) THEN -1
  ELSE IF CollationRank(a[1]) > CollationRank(b[1]) THEN 1
  ELSE PrimaryCompare(Tail(a), Tail(b))

RECURSIVE CaseCompare(_, _)
CaseCompare(a, b) ==
  IF Len(a) = 0 \/ Len(b) = 0 THEN 0
  ELSE IF a[1] = b[1] THEN CaseCompare(Tail(a), Tail(b))
  ELSE IF a[1] \in LowerLetters THEN -1 ELSE 1

LocaleLess(a, b) ==
  \/ PrimaryCompare(a, b) < 0
  \/ PrimaryCompare(a, b) = 0 /\ CaseCompare(a, b) < 0

\* variables.sort((a, b) => a.name.localeCompare(b.name)), a stable sort
RECURSIVE SortByName(_)
SortByName(variables) ==
  IF Len(variables) <= 1 THEN variables
  ELSE
    LET rest == SortByName(Tail(variables))
        before == {i \in 1..Len(rest) : LocaleLess(rest[i].name, variables[1].name)}
        n == Cardinality(before)
    IN  Take(rest, n) \o <<variables[1]>> \o Drop(rest, n)

sortedCategories == <<"color", "size", "font", "other">>

HeaderLine(text) == Line("header", 0, text, <<>>, <<>>, FALSE)

\* `${variable.name}: ${variable.value};`
VariableLine(variable) ==
  Line("variable", 0, <<>>, variable.name, variable.value, FALSE)

CategoryTitle(categoryName) ==
  CASE categoryName = "color" -> <<"C","o","l","o","r"," ","v","a","r","i","a","b","l","e","s">>
    [] categoryName = "size" -> <<"S","i","z","e"," ","v","a","r","i","a","b","l","e","s">>
    [] categoryName = "font" -> <<"F","o","n","t"," ","v","a","r","i","a","b","l","e","s">>
    [] OTHER -> <<"O","t","h","e","r"," ","v","a","r","i","a","b","l","e","s">>

RECURSIVE CategoryLines(_, _)
CategoryLines(categories, extracted) ==
  IF Len(categories) = 0 THEN <<>>
  ELSE
    LET InCategory(v) == v.category = categories[1]
        variables == SortByName(SelectSeq(extracted, InCategory))
    IN  (IF Len(variables) > 0
           THEN <<BlankLine, HeaderLine(CategoryTitle(categories[1]))>>
                  \o [i \in 1..Len(variables) |-> VariableLine(variables[i])]
           ELSE <<>>)
          \o CategoryLines(Tail(categories), extracted)

formatVariables(extracted) ==
  <<HeaderLine(<<"V","a","r","i","a","b","l","e","s">>)>> \o CategoryLines(sortedCategories, extracted)

(***************************************************************************)
(* convert(): its stages as functions                                      *)
(***************************************************************************)
\* the constructor's defaults: `x !== false` for the flags, `x || default`
\* for minOccurrences and variablePrefix
Constructor(user) ==
  [enableBEM |-> user.enableBEM,
   enableSmartNesting |-> user.enableSmartNesting,
   enableDuplicateDetection |-> user.enableDuplicateDetection,
   enableMediaQueryGrouping |-> user.enableMediaQueryGrouping,
   enableVariableExtraction |-> user.enableVariableExtraction,
   preserveComments |-> TRUE,
   variablePrefix |-> IF user.variablePrefix # <<>> THEN user.variablePrefix
                      ELSE <<"$">>,
   minOccurrences |-> IF user.minOccurrences # 0 THEN user.minOccurrences ELSE 2,
   extractColors |-> user.extractColors,
   extractSizes |-> user.extractSizes,
   extractFonts |-> user.extractFonts,
   extractOthers |-> user.extractOthers]

\* step 1 of convert: the three variable passes, when enabled
VariablePasses(opts, candidates, extracted, parsed) ==
  IF opts.enableVariableExtraction
    THEN LET candidates1 == analyzeVariableCandidates(opts, parsed, candidates)
             extracted1 == extractVariables(opts, candidates1, extracted)
         IN  [candidates |-> candidates1, extracted |-> extracted1,
              rules |-> replaceValuesWithVariables(opts, extracted1, parsed)]
    ELSE [candidates |-> candidates, extracted |-> extracted, rules |-> parsed]

\* step 2
DeduplicatedRules(opts, rewritten) ==
  IF opts.enableDuplicateDetection THEN detectAndMergeDuplicates(rewritten)
  ELSE rewritten

\* step 3
MediaGroups(opts, deduplicated) ==
  IF opts.enableMediaQueryGrouping THEN groupByMediaQuery(deduplicated, <<>>)
  ELSE << [key |-> <<>>, rules |-> deduplicated] >>

\* step 4: one tree per media group
NestedStructures(opts, groups) ==
  [g \in 1..Len(groups) |-> buildAdvancedNestedStructure(opts, groups[g].rules)]

RECURSIVE GroupLines(_, _)
GroupLines(groups, structures) ==
  IF Len(groups) = 0 THEN <<>>
  ELSE
    LET formattedCSS == formatSCSS(structures[1], <<>>, 0)
    IN  (IF groups[1].key # <<>>
           THEN <<Line("media-open", 0, groups[1].key, <<>>, <<>>, FALSE)>>
                  \o indentContent(formattedCSS)
                  \o <<Line("media-close", 0, <<>>, <<>>, <<>>, FALSE),
                       BlankLine>>
           ELSE formattedCSS)
          \o GroupLines(Tail(groups), Tail(structures))

\* result.trim(): the blank lines at both ends go
TrimLines(lines) ==
  LET solid == {i \in 1..Len(lines) : lines[i].kind # "blank"}
  IN  IF solid = {} THEN <<>>
      ELSE SubSeq(lines, CHOOSE i \in solid : \A k \in solid : i <= k,
                         CHOOSE i \in solid : \A k \in solid : k <= i)

ResultText(opts, extracted, groups, structures) ==
  TrimLines((IF opts.enableVariableExtraction /\ Len(extracted) > 0
               THEN formatVariables(extracted) \o <<BlankLine>>
               ELSE <<>>)
              \o GroupLines(groups, structures))

(***************************************************************************)
(* Input stylesheets                                                       *)
(***************************************************************************)
color_red == <<Declaration(<<"c","o","l","o","r">>, <<"r","e","d">>, FALSE)>>
color_blue == <<Declaration(<<"c","o","l","o","r">>, <<"b","l","u","e">>, FALSE)>>
max_width_768 == <<"(","m","a","x","-","w","i","d","t","h",":","7","6","8","p","x",")">>

\* stylesheets of rules with plain, grouped and attribute selectors,
\* descendant selectors, an at-rule and media blocks
NestingNodes ==
  {RuleNode(<<".","b","t","n">>, color_red),
   RuleNode(<<".","b","u","t","t","o","n">>, color_red),
   RuleNode(<<".","a","c","t","i","o","n">>, color_red),
   RuleNode(<<".","b","t","n","[","d","i","s","a","b","l","e","d","]">>, color_blue),
   RuleNode(<<".","a">>, color_blue),
   RuleNode(<<".","a">>, color_red),
   RuleNode(<<".","n","a","v"," ","u","l">>, color_blue),
   MediaNode(max_width_768, <<RuleNode(<<".","a">>, color_red)>>),
   AtruleNode(<<"f","o","n","t","-","f","a","c","e">>, <<>>,
              <<Declaration(<<"f","o","n","t","-","f","a","m","i","l","y">>, <<"X">>, FALSE)>>, <<>>, <<>>)}

\* BEM stylesheets: a block, its elements, pseudo-classes and modifiers
BEMNodes ==
  {RuleNode(<<".","h","e","a","d","e","r">>, color_red),
   RuleNode(<<".","h","e","a","d","e","r","_","_","l","o","g","o">>, color_blue),
   RuleNode(<<".","h","e","a","d","e","r","_","_","l","o","g","o",":","h","o","v","e","r">>, color_red),
   RuleNode(<<".","h","e","a","d","e","r","-","-","d","a","r","k">>, color_blue),
   RuleNode(<<".","h","e","a","d","e","r","_","_","l","o","g","o","-","-","l","a","r","g","e">>, <<Declaration(<<"w","i","d","t","h">>, <<"9","p","x">>, FALSE)>>),
   RuleNode(<<".","h","e","a","d","e","r"," ","u","l">>, <<Declaration(<<"m","a","r","g","i","n">>, <<"0">>, FALSE)>>)}

\* stylesheets whose values repeat: within one property, across
\* properties of one category, and across categories
VarNodes ==
  {RuleNode(<<".","h","e","a","d","e","r">>, <<Declaration(<<"b","a","c","k","g","r","o","u","n","d","-","c","o","l","o","r">>, <<"#","0","0","7","b","f","f">>, FALSE)>>),
   RuleNode(<<".","n","a","v",",",".","b","u","t","t","o","n">>, <<Declaration(<<"b","a","c","k","g","r","o","u","n","d","-","c","o","l","o","r">>, <<"#","0","0","7","b","f","f">>, FALSE)>>),
   RuleNode(<<".","l","i","n","k">>, <<Declaration(<<"c","o","l","o","r">>, <<"#","0","0","7","b","f","f">>, FALSE)>>),
   RuleNode(<<".","a",",",".","b">>, <<Declaration(<<"c","o","l","o","r">>, <<"i","n","h","e","r","i","t">>, FALSE)>>),
   RuleNode(<<".","c",",",".","d">>, <<Declaration(<<"d","i","s","p","l","a","y">>, <<"i","n","h","e","r","i","t">>, FALSE)>>),
   RuleNode(<<".","e">>, <<Declaration(<<"d","i","s","p","l","a","y">>, <<"i","n","h","e","r","i","t">>, FALSE),
                    Declaration(<<"p","a","d","d","i","n","g">>, <<"2","0","p","x">>, FALSE)>>),
   RuleNode(<<".","f",",",".","g">>, <<Declaration(<<"p","a","d","d","i","n","g">>, <<"2","0","p","x">>, FALSE)>>)}

\* the files of a batch: one-rule stylesheets
BatchNodes ==
  {RuleNode(<<".","n","a","v",",",".","b","u","t","t","o","n">>, <<Declaration(<<"b","a","c","k","g","r","o","u","n","d","-","c","o","l","o","r">>, <<"#","0","0","7","b","f","f">>, FALSE)>>),
   RuleNode(<<".","l","i","n","k">>, <<Declaration(<<"c","o","l","o","r">>, <<"#","0","0","7","b","f","f">>, FALSE)>>),
   RuleNode(<<".","a",",",".","b">>, <<Declaration(<<"c","o","l","o","r">>, <<"i","n","h","e","r","i","t">>, FALSE)>>),
   RuleNode(<<".","f",",",".","g">>, <<Declaration(<<"p","a","d","d","i","n","g">>, <<"2","0","p","x">>, FALSE)>>)}

SeqsUpTo(S, n) == UNION {[1..k -> S] : k \in 1..n}

UserOptions(bem, smart, dedup, grouping, variables, minOcc, colors, others) ==
  [enableBEM |-> bem, enableSmartNesting |-> smart,
   enableDuplicateDetection |-> dedup, enableMediaQueryGrouping |-> grouping,
   enableVariableExtraction |-> variables, variablePrefix |-> <<>>,
   minOccurrences |-> minOcc, extractColors |-> colors,
   extractSizes |-> TRUE, extractFonts |-> TRUE, extractOthers |-> others]

NestingOptions ==
  {UserOptions(m[1], m[2], dedup, grouping, FALSE, 0, TRUE, TRUE) :
     m \in {<<TRUE, TRUE>>, <<FALSE, TRUE>>, <<FALSE, FALSE>>},
     dedup \in BOOLEAN, grouping \in BOOLEAN}

BEMOptions ==
  {UserOptions(TRUE, TRUE, dedup, TRUE, FALSE, 0, TRUE, TRUE) : dedup \in BOOLEAN}

VarOptions ==
  {UserOptions(FALSE, TRUE, TRUE, TRUE, TRUE, minOcc, colors, others) :
     minOcc \in {0, 3}, colors \in BOOLEAN, others \in BOOLEAN}

BatchOptions ==
  {UserOptions(FALSE, TRUE, TRUE, TRUE, variables, 0, TRUE, TRUE) :
     variables \in BOOLEAN}

(***************************************************************************)
(* The converter and the calls made on it                                  *)
(***************************************************************************)
VARIABLES
  options,             \* this.options
  variableCandidates,  \* this.variableCandidates
  extractedVariables,  \* this.extractedVariables
  files,               \* the stylesheets handed to convert(), in order
  calls,               \* the convert() calls that have returned
  pc,                  \* the position inside the running convert()
  parsedRules,         \* what extractRules returned
  rules,               \* the local `rules`, rewritten in place
  deduplicatedRules,
  mediaGroups,
  nestedStructures,    \* the tree built for each media group
  result,              \* the text convert() returns
  command,             \* the batch command's position, "none" outside it
  successCount,        \* the batch command's successCount
  console              \* what the batch command printed, in order

vars ==
  <<options, variableCandidates, extractedVariables, files, calls, pc,
    parsedRules, rules, deduplicatedRules, mediaGroups, nestedStructures,
    result, command, successCount, console>>

commandVars == <<command, successCount, console>>

\* new VariableEnhancedCSSToSCSSConverter(user), before any convert()
Converter(user, input) ==
  /\ options = Constructor(user)
  /\ variableCandidates = <<>>
  /\ extractedVariables = <<>>
  /\ files = input
  /\ calls = 0
  /\ pc = "idle"
  /\ parsedRules = <<>>
  /\ rules = <<>>
  /\ deduplicatedRules = <<>>
  /\ mediaGroups = <<>>
  /\ nestedStructures = <<>>
  /\ result = <<>>

\* a converter used as a library: no batch command runs
Constructed(user, input) ==
  /\ Converter(user, input)
  /\ command = "none"
  /\ successCount = 0
  /\ console = <<>>

InitNesting ==
  \E user \in NestingOptions, css \in SeqsUpTo(NestingNodes, MaxNodes) :
    Constructed(user, <<css>>)

InitBEM ==
  \E user \in BEMOptions, css \in SeqsUpTo(BEMNodes, MaxBEMNodes) :
    Constructed(user, <<css>>)

InitVars ==
  \E user \in VarOptions, css \in SeqsUpTo(VarNodes, MaxVarNodes) :
    Constructed(user, <<css>>)

\* the batch command: one converter, convert() once per file
InitBatch ==
  \E user \in BatchOptions, css \in SeqsUpTo(BatchNodes, MaxFiles) :
    Constructed(user, [i \in 1..Len(css) |-> <<css[i]>>])

Init == InitNesting \/ InitBatch

\* const ast = csstree.parse(css); let rules = this.extractRules(ast)
ConvertExtractRules ==
  /\ pc = "idle"
  /\ command \in {"none", "loop"}
  /\ calls < Len(files)
  /\ parsedRules' = extractRules(files[calls + 1], options.enableBEM,
                                 options.preserveComments)
  /\ rules' = parsedRules'
  /\ deduplicatedRules' = <<>>
  /\ mediaGroups' = <<>>
  /\ nestedStructures' = <<>>
  /\ result' = <<>>
  /\ pc' = "extracted"
  /\ UNCHANGED <<options, variableCandidates, extractedVariables, files, calls>>
  /\ UNCHANGED commandVars

\* if (enableVariableExtraction) { analyze; extract; rules = replace }
ConvertVariables ==
  /\ pc = "extracted"
  /\ LET passes == VariablePasses(options, variableCandidates,
                                  extractedVariables, rules)
     IN  /\ variableCandidates' = passes.candidates
         /\ extractedVariables' = passes.extracted
         /\ rules' = passes.rules
  /\ pc' = "rewritten"
  /\ UNCHANGED <<options, files, calls, parsedRules, deduplicatedRules,
                 mediaGroups, nestedStructures, result>>
  /\ UNCHANGED commandVars

ConvertDuplicates ==
  /\ pc = "rewritten"
  /\ deduplicatedRules' = DeduplicatedRules(options, rules)
  /\ pc' = "deduplicated"
  /\ UNCHANGED <<options, variableCandidates, extractedVariables, files, calls,
                 parsedRules, rules, mediaGroups, nestedStructures, result>>
  /\ UNCHANGED commandVars

ConvertMediaGroups ==
  /\ pc = "deduplicated"
  /\ mediaGroups' = MediaGroups(options, deduplicatedRules)
  /\ pc' = "grouped"
  /\ UNCHANGED <<options, variableCandidates, extractedVariables, files, calls,
                 parsedRules, rules, deduplicatedRules, nestedStructures,
                 result>>
  /\ UNCHANGED commandVars

\* the variable header, then per media group the tree and its text
ConvertFormat ==
  /\ pc = "grouped"
  /\ nestedStructures' = NestedStructures(options, mediaGroups)
  /\ result' = ResultText(options, extractedVariables, mediaGroups,
                          nestedStructures')
  /\ pc' = "done"
  /\ UNCHANGED <<options, variableCandidates, extractedVariables, files, calls,
                 parsedRules, rules, deduplicatedRules, mediaGroups>>
  /\ UNCHANGED commandVars

\* return result.trim()
ReturnResult ==
  /\ pc = "done"
  /\ calls' = calls + 1
  /\ pc' = "idle"
  /\ UNCHANGED <<options, variableCandidates, extractedVariables, files,
                 parsedRules, rules, deduplicatedRules, mediaGroups,
                 nestedStructures, result>>

ConvertReturn ==
  /\ ReturnResult
  /\ UNCHANGED commandVars

Next ==
  \/ ConvertExtractRules
  \/ ConvertVariables
  \/ ConvertDuplicates
  \/ ConvertMediaGroups
  \/ ConvertFormat
  \/ ConvertReturn

Spec == Init /\ [][Next]_vars

SpecBEM == InitBEM /\ [][Next]_vars

SpecVars == InitVars /\ [][Next]_vars

(***************************************************************************)
(* The tree read back as flat rules                                        *)
(***************************************************************************)
\* fragment with every `&` replaced by the parent selector
RECURSIVE ReplaceAmpersand(_, _)
ReplaceAmpersand(fragment, parent) ==
  IF Len(fragment) = 0 THEN <<>>
  ELSE (IF fragment[1] = "&" THEN parent ELSE <<fragment[1]>>)
         \o ReplaceAmpersand(Tail(fragment), parent)

\* the fully-qualified selector of the node at a path of fragments
RECURSIVE Flatten(_, _)
Flatten(parent, path) ==
  IF Len(path) = 0 THEN parent
  ELSE Flatten(IF Includes(path[1], <<"&">>)
                 THEN ReplaceAmpersand(path[1], parent)
               ELSE IF Len(parent) = 0 THEN path[1]
               ELSE parent \o <<" ">> \o path[1],
               Tail(path))

TreePairs(tree) ==
  UNION {{<<Flatten(<<>>, tree[n].path), tree[n].declarations[d]>> :
            d \in 1..Len(tree[n].declarations)} : n \in 1..Len(tree)}

RulePairs(ruleList) ==
  UNION {{<<ruleList[r].selector, ruleList[r].declarations[d]>> :
            d \in 1..Len(ruleList[r].declarations)} : r \in 1..Len(ruleList)}

(***************************************************************************)
(* C1                                                                      *)
(***************************************************************************)
\* C1: in every nesting mode, the tree built for a media group, flattened
\* back to fully-qualified selectors, has exactly the (selector,
\* declaration) pairs of the rules given to the builder.
C1_RoundTrip ==
  pc = "done" =>
    \A g \in 1..Len(mediaGroups) :
      TreePairs(nestedStructures[g]) = RulePairs(mediaGroups[g].rules)


(***************************************************************************)
(* C2                                                                      *)
(***************************************************************************)
\* convert(css) on a converter whose two maps are still empty
ConvertFresh(opts, css) ==
  LET parsed == extractRules(css, opts.enableBEM, opts.preserveComments)
      passes == VariablePasses(opts, <<>>, <<>>, parsed)
      groups == MediaGroups(opts, DeduplicatedRules(opts, passes.rules))
  IN  ResultText(opts, passes.extracted, groups, NestedStructures(opts, groups))

\* C2: every convert() call on one converter returns the text a freshly
\* constructed converter with the same options returns for that input.
C2_ConvertIsPure ==
  pc = "done" => result = ConvertFresh(options, files[calls + 1])


(***************************************************************************)
(* C3                                                                      *)
(***************************************************************************)
\* the rules of a stylesheet, each with the media scope it is written in:
\* the query of the @media block around it, or none
RECURSIVE SourceRules(_, _)
SourceRules(ast, opts) ==
  IF Len(ast) = 0 THEN <<>>
  ELSE
    LET node == ast[1]
        inMedia == node.type = "Atrule" /\ node.name = str_media
        found == extractRules(IF inMedia THEN node.children ELSE <<node>>,
                              opts.enableBEM, opts.preserveComments)
    IN  [i \in 1..Len(found) |->
           [selector |-> found[i].selector,
            declarations |-> found[i].declarations,
            scope |-> IF inMedia THEN node.prelude ELSE <<>>]]
          \o SourceRules(Tail(ast), opts)

DeclarationSet(declarations) ==
  {<<declarations[d].property, declarations[d].value,
     declarations[d].important>> : d \in 1..Len(declarations)}

\* the selectors, in source order, of the rules that share rule i's scope
\* and declaration set
DuplicateClass(source, i) ==
  LET Same(r) == /\ r.scope = source[i].scope
                 /\ r.selector # str_COMMENT
                 /\ DeclarationSet(r.declarations)
                      = DeclarationSet(source[i].declarations)
      members == SelectSeq(source, Same)
  IN  [k \in 1..Len(members) |-> members[k].selector]

\* C3: with duplicate detection, the non-comment rules of one media scope
\* with identical declaration sets become one rule whose selector is their
\* selectors comma-joined in source order, and every rule after the merge
\* is such a class: rules of different media scopes are not merged.
C3_MergePerScope ==
  (pc = "deduplicated" /\ options.enableDuplicateDetection) =>
    LET source == SourceRules(files[calls + 1], options)
        Joined(i) == Join(DuplicateClass(source, i), <<",", " ">>)
    IN  /\ \A i \in 1..Len(source) :
             source[i].selector # str_COMMENT =>
               \E r \in 1..Len(deduplicatedRules) :
                 /\ deduplicatedRules[r].selector = Joined(i)
                 /\ deduplicatedRules[r].mediaQuery = source[i].scope
        /\ \A r \in 1..Len(deduplicatedRules) :
             \E i \in 1..Len(source) :
               /\ deduplicatedRules[r].selector = Joined(i)
               /\ deduplicatedRules[r].mediaQuery = source[i].scope


(***************************************************************************)
(* C4                                                                      *)
(***************************************************************************)
\* line i of the text opens a rule with this header whose block starts
\* with exactly these declarations
OpensRule(lines, i, selector, declarations) ==
  /\ lines[i].kind = "open"
  /\ lines[i].text = selector
  /\ i + Len(declarations) < Len(lines)
  /\ \A d \in 1..Len(declarations) :
       lines[i + d] = DeclLine(lines[i].depth + 1, declarations[d].property,
                               declarations[d].value, declarations[d].important)
  /\ lines[i + Len(declarations) + 1].kind # "decl"

\* C4: a rule made by merging duplicates is emitted, in each nesting
\* mode, as one rule headed by the comma-joined selector list and holding
\* the shared declarations once.
C4_MergedRuleEmitted ==
  pc = "done" =>
    \A r \in 1..Len(deduplicatedRules) :
      Includes(deduplicatedRules[r].selector, <<",">>) =>
        \E i \in 1..Len(result) :
          OpensRule(result, i, deduplicatedRules[r].selector,
                    deduplicatedRules[r].declarations)


(***************************************************************************)
(* C5                                                                      *)
(***************************************************************************)
\* C5: a rule inside an @media block and a top-level rule with the same
\* selector are not merged by duplicate detection and their declarations
\* are not put into one tree node, whatever their order in the source and
\* whether duplicate detection is on or off.
C5_MediaScopesApart ==
  pc = "done" =>
    LET source == SourceRules(files[calls + 1], options)
    IN  \A i, j \in 1..Len(source) :
          (/\ source[i].selector = source[j].selector
           /\ source[i].selector # str_COMMENT
           /\ source[i].scope # <<>>
           /\ source[j].scope = <<>>) =>
            /\ \A r \in 1..Len(deduplicatedRules) :
                 deduplicatedRules[r].selector
                   # source[i].selector \o <<",", " ">> \o source[j].selector
            /\ DeclarationSet(source[i].declarations)
                   \cap DeclarationSet(source[j].declarations) = {} =>
                 \A g \in 1..Len(nestedStructures) :
                   \A n \in 1..Len(nestedStructures[g]) :
                     LET held == DeclarationSet(nestedStructures[g][n].declarations)
                     IN  ~(/\ DeclarationSet(source[i].declarations) \subseteq held
                           /\ DeclarationSet(source[j].declarations) \subseteq held)


(***************************************************************************)
(* C6, C7, C8: variable extraction                                         *)
(***************************************************************************)
\* the positions <<rule, declaration>> of the property declarations
DeclarationPositions(ruleList) ==
  {pos \in UNION {{<<r, d>> : d \in 1..Len(ruleList[r].declarations)} :
                     r \in 1..Len(ruleList)} :
     LET decl == ruleList[pos[1]].declarations[pos[2]]
     IN  decl.type = "declaration" /\ decl.property # <<>> /\ decl.value # <<>>}

DeclarationAt(ruleList, pos) == ruleList[pos[1]].declarations[pos[2]]

\* the positions where a property is given a value
PairPositions(ruleList, property, value) ==
  {pos \in DeclarationPositions(ruleList) :
     /\ DeclarationAt(ruleList, pos).property = property
     /\ DeclarationAt(ruleList, pos).value = value}

\* the positions where a value is given to a property of a category
CategoryValuePositions(ruleList, category, value) ==
  {pos \in DeclarationPositions(ruleList) :
     /\ DeclarationAt(ruleList, pos).value = value
     /\ categorizeValue(DeclarationAt(ruleList, pos).property, value) = category}

\* the (category, value) pairs of the stylesheet in the enabled categories
EnabledCategoryValues(ruleList) ==
  {cv \in {<<categorizeValue(DeclarationAt(ruleList, pos).property,
                             DeclarationAt(ruleList, pos).value),
             DeclarationAt(ruleList, pos).value>> :
             pos \in DeclarationPositions(ruleList)} :
     shouldExtractCategory(options, cv[1])}

VariableLines(lines) == {i \in 1..Len(lines) : lines[i].kind = "variable"}

FirstConversionDone ==
  pc = "done" /\ calls = 0 /\ options.enableVariableExtraction

\* C6 (as stated): the number of variable declarations emitted is the
\* number of (category, value) pairs whose occurrences, summed over all
\* properties using the value, reach minOccurrences.
C6_CountByTotal ==
  FirstConversionDone =>
    Cardinality(VariableLines(result)) =
      Cardinality({cv \in EnabledCategoryValues(parsedRules) :
         Cardinality(CategoryValuePositions(parsedRules, cv[1], cv[2]))
           >= options.minOccurrences})

\* C6 (amended): in a converter's first conversion the number of variable
\* declarations emitted is the number of (category, value) pairs of the
\* enabled categories for which one single property is given the value at
\* least minOccurrences times.
C6_CountByPair ==
  FirstConversionDone =>
    Cardinality(VariableLines(result)) =
      Cardinality({cv \in EnabledCategoryValues(parsedRules) :
         \E pos \in CategoryValuePositions(parsedRules, cv[1], cv[2]) :
           Cardinality(PairPositions(parsedRules,
                         DeclarationAt(parsedRules, pos).property, cv[2]))
             >= options.minOccurrences})

\* a value shared by two properties of one category, one of them reaching
\* minOccurrences, and a variable emitted
C6_Witness ==
  /\ FirstConversionDone
  /\ VariableLines(result) # {}
  /\ \E p, q \in DeclarationPositions(parsedRules) :
       LET a == DeclarationAt(parsedRules, p)
           b == DeclarationAt(parsedRules, q)
       IN  /\ a.value = b.value /\ a.property # b.property
           /\ categorizeValue(a.property, a.value)
                = categorizeValue(b.property, b.value)
           /\ Cardinality(PairPositions(parsedRules, a.property, a.value))
                >= options.minOccurrences
           /\ Cardinality(PairPositions(parsedRules, b.property, b.value))
                < options.minOccurrences

\* the variables extracted for a value
VariablesOfValue(value) ==
  {i \in 1..Len(extractedVariables) : extractedVariables[i].value = value}

\* C7: in a converter's first conversion, a (property, value) pair of an
\* enabled category that occurs k times, its value used by no other
\* property: with k >= minOccurrences exactly one variable is bound to the
\* value, it is declared once in the output and all k declarations refer
\* to it; with k < minOccurrences no variable is bound to the value and
\* all k declarations keep the literal.
C7_ThresholdPerPair ==
  FirstConversionDone =>
    \A pos \in DeclarationPositions(parsedRules) :
      LET decl == DeclarationAt(parsedRules, pos)
          same == PairPositions(parsedRules, decl.property, decl.value)
          bound == VariablesOfValue(decl.value)
      IN  (/\ shouldExtractCategory(options,
                 categorizeValue(decl.property, decl.value))
           /\ \A q \in DeclarationPositions(parsedRules) :
                DeclarationAt(parsedRules, q).value = decl.value
                  => DeclarationAt(parsedRules, q).property = decl.property) =>
            IF Cardinality(same) >= options.minOccurrences
              THEN /\ Cardinality(bound) = 1
                   /\ Cardinality({i \in VariableLines(result) :
                                     result[i].value = decl.value}) = 1
                   /\ \A q \in same : \A i \in bound :
                        /\ DeclarationAt(rules, q).value = extractedVariables[i].name
                        /\ \E l \in VariableLines(result) :
                             /\ result[l].property = extractedVariables[i].name
                             /\ result[l].value = decl.value
              ELSE /\ bound = {}
                   /\ \A l \in VariableLines(result) : result[l].value # decl.value
                   /\ \A q \in same : DeclarationAt(rules, q).value = decl.value

\* a pair occurring three times and extracted with minOccurrences 3
C7_Witness ==
  /\ FirstConversionDone
  /\ options.minOccurrences = 3
  /\ \E pos \in DeclarationPositions(parsedRules) :
       LET decl == DeclarationAt(parsedRules, pos)
       IN  /\ Cardinality(PairPositions(parsedRules, decl.property, decl.value)) = 3
           /\ \A q \in DeclarationPositions(parsedRules) :
                DeclarationAt(parsedRules, q).value = decl.value
                  => DeclarationAt(parsedRules, q).property = decl.property
           /\ VariablesOfValue(decl.value) # {}
           /\ DeclarationAt(rules, pos).value # decl.value

\* C8: when a category's extraction flag is off, no variable of that
\* category is extracted or printed, and every declaration whose
\* (property, value) falls in the category keeps its literal value, in the
\* rewritten rules and in the output.
C8_DisabledCategory ==
  pc = "done" /\ options.enableVariableExtraction =>
    /\ \A i \in 1..Len(extractedVariables) :
         shouldExtractCategory(options, extractedVariables[i].category)
    /\ \A c \in {"color", "size", "font", "other"} :
         ~shouldExtractCategory(options, c) =>
           \A l \in 1..Len(result) :
             ~(result[l].kind = "header" /\ result[l].text = CategoryTitle(c))
    /\ \A pos \in DeclarationPositions(parsedRules) :
         LET decl == DeclarationAt(parsedRules, pos)
         IN  ~shouldExtractCategory(options,
                 categorizeValue(decl.property, decl.value)) =>
               /\ DeclarationAt(rules, pos) = decl
               /\ \E l \in 1..Len(result) :
                    /\ result[l].kind = "decl"
                    /\ result[l].property = decl.property
                    /\ result[l].value = decl.value

\* a declaration of a disabled category whose value has a variable,
\* extracted for a property of an enabled category
C8_Witness ==
  /\ pc = "done" /\ options.enableVariableExtraction
  /\ \E pos \in DeclarationPositions(parsedRules) :
       LET decl == DeclarationAt(parsedRules, pos)
       IN  /\ ~shouldExtractCategory(options,
                 categorizeValue(decl.property, decl.value))
           /\ VariablesOfValue(decl.value) # {}


(***************************************************************************)
(* C9, C10: BEM                                                            *)
(***************************************************************************)
IsBEMName(s) == Len(s) > 0 /\ \A k \in 1..Len(s) : s[k] \in WordChars

\* the ways to read a selector as `.B--M`: the index the block B ends at
ModifierSplits(selector) ==
  {b \in 2..(Len(selector) - 3) :
     /\ selector[1] = "."
     /\ IsBEMName(SubSeq(selector, 2, b))
     /\ SubSeq(selector, b + 1, b + 2) = <<"-", "-">>
     /\ IsBEMName(Drop(selector, b + 2))}

\* the ways to read a selector as `.B__E` followed by suffix: the index
\* the block B ends at
ElementSplits(selector, suffix) ==
  {b \in 2..(Len(selector) - Len(suffix) - 3) :
     /\ selector[1] = "."
     /\ IsBEMName(SubSeq(selector, 2, b))
     /\ SubSeq(selector, b + 1, b + 2) = <<"_", "_">>
     /\ IsBEMName(SubSeq(selector, b + 3, Len(selector) - Len(suffix)))
     /\ Drop(selector, Len(selector) - Len(suffix)) = suffix}

str_hover == <<":","h","o","v","e","r">>

\* tree has a node at path that holds all of declarations
NodeHolds(tree, path, declarations) ==
  /\ HasNode(tree, path)
  /\ DeclarationSet(declarations)
       \subseteq DeclarationSet(tree[NodeIndex(tree, path)].declarations)

BEMConversionDone == pc = "done" /\ options.enableBEM

\* C9 (as stated): with BEM enabled a rule `.B--M` creates or reuses the
\* child `&--M` directly under the block node `.B`.
C9_ModifierNested ==
  BEMConversionDone =>
    \A g \in 1..Len(mediaGroups) :
      \A r \in 1..Len(mediaGroups[g].rules) :
        LET rule == mediaGroups[g].rules[r]
        IN  ModifierSplits(rule.selector) # {} =>
              \E b \in ModifierSplits(rule.selector) :
                NodeHolds(nestedStructures[g],
                          <<Take(rule.selector, b),
                            <<"&", "-", "-">> \o Drop(rule.selector, b + 2)>>,
                          rule.declarations)

\* C9 (amended): with BEM enabled a rule `.B--M` is classified as a block
\* named `B--M`; its declarations are in the top-level node `.B--M`, and
\* no node of the tree is a `&--` child.  A rule `.B__E` has its
\* declarations in the child `&__E` of the top-level node `.B`, a rule
\* `.B__E:hover` in the child `&:hover` of that `&__E`, and a rule `.B`
\* in the top-level node `.B`.
C9_ModifierTopLevel ==
  BEMConversionDone =>
    \A g \in 1..Len(mediaGroups) :
      LET tree == nestedStructures[g]
      IN  /\ \A n \in 1..Len(tree) :
               \A k \in 1..Len(tree[n].path) :
                 ~StartsWith(tree[n].path[k], <<"&", "-", "-">>)
          /\ \A r \in 1..Len(mediaGroups[g].rules) :
               LET rule == mediaGroups[g].rules[r]
                   sel == rule.selector
               IN  /\ ModifierSplits(sel) # {} =>
                        /\ rule.bemInfo.type = "block"
                        /\ rule.bemInfo.block = Tail(sel)
                        /\ NodeHolds(tree, <<sel>>, rule.declarations)
                   /\ \A b \in ElementSplits(sel, <<>>) :
                        NodeHolds(tree,
                                  <<Take(sel, b), <<"&">> \o Drop(sel, b)>>,
                                  rule.declarations)
                   /\ \A b \in ElementSplits(sel, str_hover) :
                        NodeHolds(tree,
                                  <<Take(sel, b),
                                    <<"&">> \o SubSeq(sel, b + 1,
                                                      Len(sel) - Len(str_hover)),
                                    <<"&">> \o str_hover>>,
                                  rule.declarations)
                   /\ (sel[1] = "." /\ IsBEMName(Tail(sel))) =>
                        NodeHolds(tree, <<sel>>, rule.declarations)

\* the four rules of the scenario given to the builder in one stylesheet
C9_Witness ==
  /\ BEMConversionDone
  /\ \E g \in 1..Len(mediaGroups) :
       /\ {<<".","h","e","a","d","e","r">>, <<".","h","e","a","d","e","r","_","_","l","o","g","o">>, <<".","h","e","a","d","e","r","_","_","l","o","g","o",":","h","o","v","e","r">>, <<".","h","e","a","d","e","r","-","-","d","a","r","k">>}
            \subseteq {mediaGroups[g].rules[r].selector :
                         r \in 1..Len(mediaGroups[g].rules)}
       /\ HasNode(nestedStructures[g], <<<<".","h","e","a","d","e","r","-","-","d","a","r","k">>>>)
       /\ HasNode(nestedStructures[g], <<<<".","h","e","a","d","e","r">>, <<"&","_","_","l","o","g","o">>, <<"&",":","h","o","v","e","r">>>>)


\* the declarations printed directly after the opening line i
OwnDeclarations(lines, i) ==
  {<<lines[k].property, lines[k].value, lines[k].important>> :
     k \in {k \in (i + 1)..Len(lines) :
              \A j \in (i + 1)..k : lines[j].kind = "decl"}}

\* line j lies in the block opened at line i
InsideBlock(lines, i, j) ==
  /\ i < j
  /\ lines[i].kind = "open"
  /\ \A k \in (i + 1)..(j - 1) :
       ~(lines[k].kind = "close" /\ lines[k].depth = lines[i].depth)

\* line i opens a rule with this header at this depth and prints these
\* declarations as its own
PrintsRule(lines, i, depth, selector, declarations) ==
  /\ lines[i] = OpenLine(depth, selector)
  /\ DeclarationSet(declarations) \subseteq OwnDeclarations(lines, i)

\* C10: with BEM enabled a rule `.B--M` is printed as its own top-level
\* rule `.B--M { ... }`, a rule `.B__E` as `&__E { ... }` inside the
\* top-level rule `.B`, and a rule `.B__E:hover` as `&:hover { ... }`
\* inside that `&__E`.
C10_EmittedBEM ==
  (BEMConversionDone /\ \A g \in 1..Len(mediaGroups) : mediaGroups[g].key = <<>>) =>
    \A r \in 1..Len(deduplicatedRules) :
      LET rule == deduplicatedRules[r]
          sel == rule.selector
      IN  /\ ModifierSplits(sel) # {} =>
               \E i \in 1..Len(result) :
                 PrintsRule(result, i, 0, sel, rule.declarations)
          /\ \A b \in ElementSplits(sel, <<>>) :
               \E i, j \in 1..Len(result) :
                 /\ result[i] = OpenLine(0, Take(sel, b))
                 /\ InsideBlock(result, i, j)
                 /\ PrintsRule(result, j, 1, <<"&">> \o Drop(sel, b),
                               rule.declarations)
          /\ \A b \in ElementSplits(sel, str_hover) :
               \E i, j, k \in 1..Len(result) :
                 /\ result[i] = OpenLine(0, Take(sel, b))
                 /\ InsideBlock(result, i, j)
                 /\ result[j] = OpenLine(1, <<"&">> \o SubSeq(sel, b + 1,
                                            Len(sel) - Len(str_hover)))
                 /\ InsideBlock(result, j, k)
                 /\ PrintsRule(result, k, 2, <<"&">> \o str_hover,
                               rule.declarations)

\* a stylesheet with a `.B--M`, a `.B__E` and a `.B__E:hover` rule, printed
C10_Witness ==
  /\ BEMConversionDone
  /\ {<<".","h","e","a","d","e","r","_","_","l","o","g","o">>, <<".","h","e","a","d","e","r","_","_","l","o","g","o",":","h","o","v","e","r">>, <<".","h","e","a","d","e","r","-","-","d","a","r","k">>}
       \subseteq {deduplicatedRules[r].selector : r \in 1..Len(deduplicatedRules)}
  /\ \E i \in 1..Len(result) : result[i] = OpenLine(0, <<".","h","e","a","d","e","r","-","-","d","a","r","k">>)
  /\ \E k \in 1..Len(result) : result[k] = OpenLine(2, <<"&",":","h","o","v","e","r">>)

(***************************************************************************)
(* Multi-level BEM elements                                                *)
(***************************************************************************)
\* a block, elements two and three levels deep, and pseudo-classes on them
ChainNodes ==
  {RuleNode(<<".","c","a","r","d">>, color_red),
   RuleNode(<<".","c","a","r","d","_","_","b","o","d","y">>, <<Declaration(<<"m","a","r","g","i","n">>, <<"0">>, FALSE)>>),
   RuleNode(<<".","c","a","r","d","_","_","b","o","d","y","_","_","a","c","t","i","o","n","s">>, color_blue),
   RuleNode(<<".","c","a","r","d","_","_","b","o","d","y","_","_","a","c","t","i","o","n","s",":","h","o","v","e","r">>, color_red),
   RuleNode(<<".","c","a","r","d","_","_","h","e","a","d","e","r","_","_","t","i","t","l","e">>, <<Declaration(<<"w","i","d","t","h">>, <<"9","p","x">>, FALSE)>>),
   RuleNode(<<".","c","a","r","d","_","_","b","o","d","y","_","_","t","i","t","l","e",":","f","i","r","s","t","-","c","h","i","l","d">>, color_blue)}

InitChain ==
  \E user \in BEMOptions, css \in SeqsUpTo(ChainNodes, MaxChainNodes) :
    Constructed(user, <<css>>)

SpecChain == InitChain /\ [][Next]_vars

\* a name of the form n1__n2__...__nk read as its names, <<>> if it has not
\* that form (a name is a run of letters, digits and single hyphens)
RECURSIVE ChainNames(_)
ChainNames(t) ==
  LET e == RunEnd(t, 1, WordChars)
  IN  IF e = 0 \/ Includes(Take(t, e), <<"-", "-">>) THEN <<>>
      ELSE IF e = Len(t) THEN <<t>>
      ELSE IF e + 2 < Len(t) /\ SubSeq(t, e + 1, e + 2) = <<"_", "_">>
                /\ ChainNames(Drop(t, e + 2)) # <<>>
        THEN <<Take(t, e)>> \o ChainNames(Drop(t, e + 2))
      ELSE <<>>

\* the node a selector `.B__e1__...__en` with an optional pseudo suffix
\* belongs in: `.B`, `&__e1`, ..., `&__en`, and `&` plus the suffix; <<>>
\* for a selector of another form
ChainTarget(selector) ==
  LET colon == FirstIn(selector, {":"})
      name == IF colon = 0 THEN selector ELSE Take(selector, colon - 1)
      suffix == IF colon = 0 THEN <<>> ELSE Drop(selector, colon - 1)
      names == IF Len(name) < 2 \/ name[1] # "." THEN <<>>
               ELSE ChainNames(Tail(name))
  IN  IF names = <<>> \/ Len(suffix) = 1
           \/ \E k \in 1..Len(suffix) : suffix[k] \in CommaOrSpace \cup {"[", "]"}
        THEN <<>>
      ELSE <<<<".">> \o names[1]>>
             \o [i \in 1..(Len(names) - 1) |-> <<"&", "_", "_">> \o names[i + 1]]
             \o (IF suffix = <<>> THEN <<>> ELSE <<<<"&">> \o suffix>>)

\* the declarations of the rules that belong in the node at path, in order
RECURSIVE TargetedDeclarations(_, _)
TargetedDeclarations(ruleSeq, path) ==
  IF Len(ruleSeq) = 0 THEN <<>>
  ELSE (IF ChainTarget(ruleSeq[1].selector) = path
          THEN ruleSeq[1].declarations ELSE <<>>)
         \o TargetedDeclarations(Tail(ruleSeq), path)

\* C11: with BEM enabled a rule `.B__e1__...__en`, with or without a pseudo
\* suffix, is inserted as the chain `&__e1` > ... > `&__en` under the block
\* node `.B`, followed by `&` plus the suffix when there is one.  The
\* declarations are attached to the deepest node only: every node of the
\* tree holds exactly the declarations of the rules that end in it, in
\* their order, so the intermediate nodes of a chain hold none of them.
\* Rules that share a prefix reuse the nodes of that prefix: no two nodes
\* have the same path.
C11_ElementChain ==
  BEMConversionDone =>
    \A g \in 1..Len(mediaGroups) :
      LET tree == nestedStructures[g]
          group == mediaGroups[g].rules
      IN  (\A r \in 1..Len(group) : ChainTarget(group[r].selector) # <<>>) =>
            /\ \A r \in 1..Len(group) :
                 \A k \in 1..Len(ChainTarget(group[r].selector)) :
                   HasNode(tree, Take(ChainTarget(group[r].selector), k))
            /\ \A n \in 1..Len(tree) :
                 tree[n].declarations = TargetedDeclarations(group, tree[n].path)
            /\ \A n, m \in 1..Len(tree) : tree[n].path = tree[m].path => n = m

\* two rules three levels deep that share the prefix `.card` > `&__body`,
\* one of them with a pseudo suffix
C11_Witness ==
  /\ BEMConversionDone
  /\ \E g \in 1..Len(mediaGroups) :
       /\ \A r \in 1..Len(mediaGroups[g].rules) :
            ChainTarget(mediaGroups[g].rules[r].selector) # <<>>
       /\ HasNode(nestedStructures[g],
                  <<<<".","c","a","r","d">>, <<"&","_","_","b","o","d","y">>, <<"&","_","_","a","c","t","i","o","n","s">>, <<"&",":","h","o","v","e","r">>>>)
       /\ HasNode(nestedStructures[g],
                  <<<<".","c","a","r","d">>, <<"&","_","_","b","o","d","y">>, <<"&","_","_","t","i","t","l","e">>, <<"&",":","f","i","r","s","t","-","c","h","i","l","d">>>>)
       /\ nestedStructures[g][NodeIndex(nestedStructures[g],
                                        <<<<".","c","a","r","d">>, <<"&","_","_","b","o","d","y">>>>)].declarations = <<>>

(***************************************************************************)
(* Descendant selectors in smart nesting                                   *)
(***************************************************************************)
SmartNodes ==
  {RuleNode(<<".","n","a","v">>, color_red),
   RuleNode(<<".","n","a","v"," ","u","l">>, color_blue),
   RuleNode(<<".","n","a","v"," ","u","l"," ","l","i">>, <<Declaration(<<"m","a","r","g","i","n">>, <<"0">>, FALSE)>>),
   RuleNode(<<".","c","o","n","t","a","i","n","e","r">>, <<Declaration(<<"d","i","s","p","l","a","y">>, <<"i","n","h","e","r","i","t">>, FALSE)>>),
   RuleNode(<<".","c","o","n","t","a","i","n","e","r"," ",".","h","e","a","d","e","r"," ","h","1">>, <<Declaration(<<"w","i","d","t","h">>, <<"9","p","x">>, FALSE)>>)}

\* the default options, and the same with BEM and duplicate detection off
SmartOptions ==
  {UserOptions(bem, TRUE, dedup, TRUE, TRUE, 0, TRUE, TRUE) :
     bem \in BOOLEAN, dedup \in BOOLEAN}

InitSmart ==
  \E user \in SmartOptions, css \in SeqsUpTo(SmartNodes, MaxSmartNodes) :
    Constructed(user, <<css>>)

SpecSmart == InitSmart /\ [][Next]_vars

\* a selector made of two or more simple tokens separated by single spaces
IsDescendantSelector(selector) ==
  /\ Len(SplitWhitespace(selector)) >= 2
  /\ Join(SplitWhitespace(selector), <<" ">>) = selector
  /\ \A k \in 1..Len(selector) : selector[k] \notin {",", ":", "[", ">", "+", "~"}

SmartConversionDone == pc = "done" /\ options.enableSmartNesting

\* C12 (as stated): in smart nesting a descendant selector such as
\* `.container .header h1` is split on whitespace and the part after the
\* base token becomes a chain of single-token child nodes without `&`:
\* the declarations are in the node `.container` > `.header` > `h1`.
C12_DescendantChain ==
  SmartConversionDone =>
    \A g \in 1..Len(mediaGroups) :
      \A r \in 1..Len(mediaGroups[g].rules) :
        LET rule == mediaGroups[g].rules[r]
        IN  IsDescendantSelector(rule.selector) =>
              NodeHolds(nestedStructures[g], SplitWhitespace(rule.selector),
                        rule.declarations)

DefaultOptions == Constructor(UserOptions(TRUE, TRUE, TRUE, TRUE, TRUE, 0, TRUE, TRUE))

\* the lines that open the top-level rule with this selector
TopLevelOpenings(lines, selector) ==
  {i \in 1..Len(lines) : lines[i] = OpenLine(0, selector)}

\* line j opens `selector` at depth 1 and is followed by the declarations,
\* each printed at depth 2
PrintsChild(lines, j, selector, declarations) ==
  /\ lines[j] = OpenLine(1, selector)
  /\ \A d \in 1..Len(declarations) :
       \E k \in (j + 1)..Len(lines) :
         /\ lines[k] = DeclLine(2, declarations[d].property,
                                declarations[d].value, declarations[d].important)
         /\ \A x \in (j + 1)..k : lines[x].kind = "decl"

NameNodes ==
  {RuleNode(<<".","h","e","a","d","e","r">>, <<Declaration(<<"p","a","d","d","i","n","g">>, <<"2","0","p","x">>, FALSE)>>),
   RuleNode(<<".","n","a","v">>, <<Declaration(<<"b","o","r","d","e","r","-","r","a","d","i","u","s">>, <<"4","p","x">>, FALSE)>>),
   RuleNode(<<".","b","u","t","t","o","n">>, <<Declaration(<<"b","a","c","k","g","r","o","u","n","d","-","c","o","l","o","r">>, <<"#","0","0","7","b","f","f">>, FALSE)>>),
   RuleNode(<<".","l","i","n","k">>, <<Declaration(<<"b","a","c","k","g","r","o","u","n","d","-","c","o","l","o","r">>, <<"#","0","0","7","B","F","F">>, FALSE)>>)}

NameOptions ==
  {UserOptions(FALSE, TRUE, dedup, TRUE, TRUE, 2, TRUE, TRUE) : dedup \in BOOLEAN}

\* one converter given a stylesheet once, or the same stylesheet twice
InitNames ==
  \E user \in NameOptions, css \in SeqsUpTo(NameNodes, MaxNameNodes),
     n \in 1..2 :
    Constructed(user, [i \in 1..n |-> css])

SpecNames == InitNames /\ [][Next]_vars

\* how many declarations `property: value` the parsed rules hold
Occurrences(property, value) ==
  Cardinality(PairPositions(parsedRules, property, value))

\* the text declares the variable `name: value` and prints every
\* declaration of the property as `property: name`
ExtractedAs(lines, property, value, name) ==
  /\ \E i \in VariableLines(lines) :
       lines[i].property = name /\ lines[i].value = value
  /\ \A i \in 1..Len(lines) :
       (lines[i].kind = "decl" /\ lines[i].property = property) =>
         lines[i].value = name

\* C14 (as stated): with minOccurrences 2 and the default prefix a
\* `padding: 20px` repeated in two rules is extracted as `$padding-20px`
\* and a repeated `border-radius: 4px` as `$border-4px`, a repeated
\* `background-color: #007bff` as `$color-primary-blue`, and the
\* declarations are rewritten to use these names.
C14_DocumentedNames ==
  (FirstConversionDone /\ options.minOccurrences = 2) =>
    /\ Occurrences(<<"p","a","d","d","i","n","g">>, <<"2","0","p","x">>) >= 2 =>
         ExtractedAs(result, <<"p","a","d","d","i","n","g">>, <<"2","0","p","x">>, <<"$","p","a","d","d","i","n","g","-","2","0","p","x">>)
    /\ Occurrences(<<"b","o","r","d","e","r","-","r","a","d","i","u","s">>, <<"4","p","x">>) >= 2 =>
         ExtractedAs(result, <<"b","o","r","d","e","r","-","r","a","d","i","u","s">>, <<"4","p","x">>, <<"$","b","o","r","d","e","r","-","4","p","x">>)
    /\ (Occurrences(<<"b","a","c","k","g","r","o","u","n","d","-","c","o","l","o","r">>, <<"#","0","0","7","b","f","f">>) >= 2
          /\ Occurrences(<<"b","a","c","k","g","r","o","u","n","d","-","c","o","l","o","r">>, <<"#","0","0","7","B","F","F">>) = 0) =>
         ExtractedAs(result, <<"b","a","c","k","g","r","o","u","n","d","-","c","o","l","o","r">>, <<"#","0","0","7","b","f","f">>, <<"$","c","o","l","o","r","-","p","r","i","m","a","r","y","-","b","l","u","e">>)


\* the names of the variable lines of the text, in their order
VariableNames(lines) ==
  LET IsVariable(l) == l.kind = "variable"
      printed == SelectSeq(lines, IsVariable)
  IN  [i \in 1..Len(printed) |-> printed[i].property]

\* the name generateVariableName suggests for an extracted variable
SuggestedName(variable) ==
  generateVariableName(options.variablePrefix,
                       Take(variable.key, FirstIn(variable.key, {":"}) - 1),
                       variable.value, variable.category)

\* C16: every emitted variable name is unique within one conversion: no two
\* extracted variables carry the same name, and no two variable lines of
\* the returned text declare the same name.  A collision is resolved by an
\* incrementing numeric suffix on the later one: in a converter's first
\* conversion every variable is named by its suggested name or by that
\* name followed by `-n`, and then the suggested name and the names with
\* the suffixes `-1` .. `-(n-1)` are carried by variables extracted before it.
C16_UniqueNames ==
  (pc = "done" /\ options.enableVariableExtraction) =>
    /\ \A i, j \in 1..Len(extractedVariables) :
         extractedVariables[i].name = extractedVariables[j].name => i = j
    /\ \A i, j \in 1..Len(VariableNames(result)) :
         VariableNames(result)[i] = VariableNames(result)[j] => i = j
    /\ {VariableNames(result)[i] : i \in 1..Len(VariableNames(result))}
         = {extractedVariables[i].name : i \in 1..Len(extractedVariables)}
    /\ calls = 0 =>
         \A i \in 1..Len(extractedVariables) :
           \E n \in 0..(i - 1) :
             /\ extractedVariables[i].name
                  = NameAttempt(SuggestedName(extractedVariables[i]), n)
             /\ \A k \in 0..(n - 1) :
                  \E j \in 1..(i - 1) :
                    extractedVariables[j].name
                      = NameAttempt(SuggestedName(extractedVariables[i]), k)

\* two values whose suggested names collide, both extracted in one
\* conversion: the later one carries the suffix -1
C16_Witness ==
  /\ pc = "done"
  /\ calls = 0
  /\ \E i, j \in 1..Len(extractedVariables) :
       /\ i < j
       /\ SuggestedName(extractedVariables[i]) = SuggestedName(extractedVariables[j])
       /\ extractedVariables[i].name = <<"$","c","o","l","o","r","-","p","r","i","m","a","r","y","-","b","l","u","e">>
       /\ extractedVariables[j].name = <<"$","c","o","l","o","r","-","p","r","i","m","a","r","y","-","b","l","u","e","-","1">>
  /\ Len(VariableNames(result)) = 2

(***************************************************************************)
(* The batch command                                                       *)
(* command is "start" before the directory is looked at, "loop" while the  *)
(* for loop over the listed files runs, and "exit 0" or "exit 1" once the  *)
(* process has ended.  files holds the listed files that could be read, in *)
(* the order they are handed to convert(); a listed file whose read throws *)
(* never reaches convert() and shows only as a failure on the console.     *)
(***************************************************************************)
CommandNodes ==
  {RuleNode(<<".","l","i","n","k">>, <<Declaration(<<"c","o","l","o","r">>, <<"#","0","0","7","b","f","f">>, FALSE)>>),
   RuleNode(<<".","a",",",".","b">>, <<Declaration(<<"c","o","l","o","r">>, <<"i","n","h","e","r","i","t">>, FALSE)>>)}

InitCommand ==
  /\ \E user \in BatchOptions : Converter(user, <<>>)
  /\ command = "start"
  /\ successCount = 0
  /\ console = <<>>

converterVars ==
  <<options, variableCandidates, extractedVariables, files, calls, pc,
    parsedRules, rules, deduplicatedRules, mediaGroups, nestedStructures,
    result>>

\* if (!existsSync(directory)) { console.error(...); process.exit(1) }
BatchDirectoryMissing ==
  /\ command = "start"
  /\ console' = Append(console, "does not exist")
  /\ command' = "exit 1"
  /\ UNCHANGED <<successCount, converterVars>>

\* readdirSync or mkdirSync throws: the outer catch prints and exits 1
BatchSetupFails ==
  /\ command = "start"
  /\ console' = Append(console, "Error")
  /\ command' = "exit 1"
  /\ UNCHANGED <<successCount, converterVars>>

\* if (files.length === 0) { console.log(...); return }
BatchNoFiles ==
  /\ command = "start"
  /\ console' = Append(console, "No CSS files found")
  /\ command' = "exit 0"
  /\ UNCHANGED <<successCount, converterVars>>

\* the directory lists files; the loop is entered with successCount = 0
BatchBegin ==
  /\ command = "start"
  /\ \E css \in SeqsUpTo(CommandNodes, MaxListed) :
       files' = [i \in 1..Len(css) |-> <<css[i]>>]
  /\ command' = "loop"
  /\ successCount' = 0
  /\ UNCHANGED <<console, options, variableCandidates, extractedVariables,
                 calls, pc, parsedRules, rules, deduplicatedRules, mediaGroups,
                 nestedStructures, result>>

\* the listed files whose read failed so far
ReadFailures == Len(console) - calls

\* the catch block of the loop, made to print and leave through the outer
\* catch
FileFailed_Rethrow ==
  /\ console' = Append(console, "Error")
  /\ command' = "exit 1"
  /\ UNCHANGED successCount

\* the catch block of the loop: console.error, and the loop goes on
FileFailed ==
  /\ console' = Append(console, "Failed to convert")
  /\ UNCHANGED <<command, successCount>>

\* readFileSync throws for the next listed file
BatchReadFails ==
  /\ command = "loop"
  /\ pc = "idle"
  /\ ReadFailures < MaxReadFailures
  /\ FileFailed
  /\ UNCHANGED converterVars

\* convert() returned, writeFileSync succeeded; console.log; successCount++
BatchConverted ==
  /\ command = "loop"
  /\ ReturnResult
  /\ console' = Append(console, "Converted")
  /\ successCount' = successCount + 1
  /\ UNCHANGED command

\* convert() returned, writeFileSync throws
BatchWriteFails ==
  /\ command = "loop"
  /\ ReturnResult
  /\ FileFailed

\* the loop is over: the summary is printed and the action returns
BatchEnd ==
  /\ command = "loop"
  /\ pc = "idle"
  /\ calls = Len(files)
  /\ console' = Append(console, "completed")
  /\ command' = "exit 0"
  /\ UNCHANGED <<successCount, converterVars>>

NextCommand ==
  \/ BatchDirectoryMissing
  \/ BatchSetupFails
  \/ BatchNoFiles
  \/ BatchBegin
  \/ BatchReadFails
  \/ ConvertExtractRules
  \/ ConvertVariables
  \/ ConvertDuplicates
  \/ ConvertMediaGroups
  \/ ConvertFormat
  \/ BatchConverted
  \/ BatchWriteFails
  \/ BatchEnd

\* where the command is: its position, the position inside convert(), the
\* files done and the lines printed
position == <<command, pc, calls, console>>

\* A step of the command as its position shows it.  Every step of
\* NextCommand changes the position in this way, and while the command has
\* not ended one of them can be taken.
CommandAdvances ==
  /\ command \in {"start", "loop"}
  /\ command' \in {"loop", "exit 0", "exit 1"}
  /\ pc' \in {"idle", "extracted", "rewritten", "deduplicated", "grouped", "done"}
  /\ calls' \in {calls, calls + 1}
  /\ console' \in {console} \cup
        {Append(console, line) :
           line \in {"does not exist", "Error", "No CSS files found",
                     "Converted", "Failed to convert", "completed"}}

\* the command is one sequential async function: while it has not ended,
\* its next step is taken
SpecCommand == InitCommand /\ [][NextCommand]_vars /\ WF_position(CommandAdvances)

\* how many lines of this kind the console shows
Printed(kind) == Cardinality({i \in 1..Len(console) : console[i] = kind})

\* the loop has run to its end and the process ended with status 0: every
\* readable file went through convert(), every listed file shows as
\* converted or as failed, and the success count is the number converted
BatchCompleted ==
  /\ command = "exit 0"
  /\ pc = "idle"
  /\ calls = Len(files)
  /\ successCount = Printed("Converted")
  /\ Printed("Converted") + Printed("Failed to convert") + 1 = Len(console)
  /\ Printed("Converted") + Printed("Failed to convert") >= Len(files)
  /\ console[Len(console)] = "completed"

\* C15 (as stated): in batch mode the files are processed one after
\* another; a failure on one file is reported and does not stop the
\* processing of any later file; at the end the reported success count is
\* the number of files converted without error and the process exits 0
\* even when some files failed; only a missing directory is fatal.
C15_OnlyMissingDirectoryFatal ==
  /\ [](command = "exit 1" => console = <<"does not exist">>)
  /\ [](command = "loop" => <>BatchCompleted)

\* C15 (amended): as stated, except for what is fatal: the process exits 1
\* when the directory is missing and also when listing it or creating the
\* output directory throws; both happen before the first file, and once
\* the loop has started no failure on a file ends it: the loop reaches its
\* end, the process exits 0 and the success count is the number of files
\* converted without error.
C15_FatalOnlyBeforeLoop ==
  /\ [](command = "exit 1" =>
          /\ console \in {<<"does not exist">>, <<"Error">>}
          /\ files = <<>>
          /\ calls = 0)
  /\ [](command = "loop" => <>BatchCompleted)

\* a batch that ended with status 0 in which a file failed and a later
\* file was converted
C15_Witness ==
  /\ BatchCompleted
  /\ Len(files) = 2
  /\ \E i, j \in 1..Len(console) :
       /\ i < j
       /\ console[i] = "Failed to convert"
       /\ console[j] = "Converted"
  /\ successCount < Printed("Converted") + Printed("Failed to convert")

(***************************************************************************)
(* C17                                                                     *)
(***************************************************************************)
\* C17: the media query of an `@media` at-rule is recorded only on the
\* rules inside that at-rule: rule for rule, what extractRules returns
\* carries the query of the block the rule stands in, and a style rule,
\* at-rule or comment that follows the end of the block at top level is
\* recorded with no media query.
C17_MediaContextEnds ==
  pc = "extracted" =>
    LET source == SourceRules(files[calls + 1], options)
    IN  /\ Len(parsedRules) = Len(source)
        /\ \A i \in 1..Len(source) :
             /\ parsedRules[i].selector = source[i].selector
             /\ parsedRules[i].mediaQuery = source[i].scope

(***************************************************************************)
(* C18                                                                     *)
(***************************************************************************)
\* the selectors a comma-joined selector list is made of
SelectorList(selector) ==
  LET parts == Split(selector, ",")
  IN  {Trim(parts[k]) : k \in 1..Len(parts)}

\* the rule out of detectAndMergeDuplicates stands for the rule in given to
\* it: same media query, same declarations, its selector among the joined
ComesFrom(out, in) ==
  /\ out.mediaQuery = in.mediaQuery
  /\ DeclarationSet(out.declarations) = DeclarationSet(in.declarations)
  /\ in.selector \in SelectorList(out.selector)

\* C18: duplicate merging preserves cascade order: of two rules of the
\* same media scope that share a selector and differ in their
\* declarations, the one that came later in the source stands later in
\* the list detectAndMergeDuplicates returns, also when one of them is
\* merged with a third rule that appeared earlier.
C18_CascadeOrderKept ==
  (pc = "deduplicated" /\ options.enableDuplicateDetection) =>
    \A i, j \in 1..Len(rules) :
      (/\ i < j
       /\ rules[i].selector = rules[j].selector
       /\ rules[i].selector # str_COMMENT
       /\ rules[i].mediaQuery = rules[j].mediaQuery
       /\ DeclarationSet(rules[i].declarations)
            # DeclarationSet(rules[j].declarations)) =>
        \A a, b \in 1..Len(deduplicatedRules) :
          (/\ ComesFrom(deduplicatedRules[a], rules[i])
           /\ ComesFrom(deduplicatedRules[b], rules[j])) => a < b

(***************************************************************************)
(* C19, C20: pseudo and attribute suffixes in BEM mode                     *)
(***************************************************************************)
SuffixNodes ==
  {RuleNode(<<".","b","t","n">>, color_red),
   RuleNode(<<".","b","t","n",":","h","o","v","e","r">>, color_blue),
   RuleNode(<<".","b","t","n",":","f","o","c","u","s">>, <<Declaration(<<"m","a","r","g","i","n">>, <<"0">>, FALSE)>>),
   RuleNode(<<".","b","t","n",":","f","i","r","s","t","-","c","h","i","l","d">>, <<Declaration(<<"w","i","d","t","h">>, <<"9","p","x">>, FALSE)>>),
   RuleNode(<<".","b","t","n",":",":","s","e","l","e","c","t","i","o","n">>, <<Declaration(<<"d","i","s","p","l","a","y">>, <<"i","n","h","e","r","i","t">>, FALSE)>>),
   RuleNode(<<".","b","t","n","[","d","i","s","a","b","l","e","d","]">>, <<Declaration(<<"o","p","a","c","i","t","y">>, <<"0">>, FALSE)>>),
   RuleNode(<<".","b","t","n","_","_","i","c","o","n","[","t","y","p","e","=","x","]">>, <<Declaration(<<"h","e","i","g","h","t">>, <<"9","p","x">>, FALSE)>>)}

InitSuffix ==
  \E user \in BEMOptions, css \in SeqsUpTo(SuffixNodes, MaxSuffixNodes) :
    Constructed(user, <<css>>)

SpecSuffix == InitSuffix /\ [][Next]_vars

\* a selector `.B` followed by suffix, B a name without `__` and `--`:
\* the index B ends at, 0 for a selector of another form
BlockEnd(selector) ==
  LET b == RunEnd(selector, 2, WordChars)
  IN  IF Len(selector) >= 2 /\ selector[1] = "." /\ b >= 2
           /\ ~Includes(Take(selector, b), <<"-", "-">>)
        THEN b ELSE 0

\* the suffix is a pseudo-class or pseudo-element: colons, then a name
IsPseudoSuffix(suffix) ==
  LET c == RunEnd(suffix, 1, {":"})
  IN  /\ c \in {1, 2}
      /\ c < Len(suffix)
      /\ \A k \in (c + 1)..Len(suffix) : suffix[k] \in WordChars

\* C19 (as stated): in BEM mode a block rule with a pseudo-class or
\* pseudo-element suffix, `.B:P`, has its declarations in the child of
\* `.B` whose key is `&` followed by the complete suffix, for every
\* suffix such as `:hover`, `:focus`, `:first-child`, `::selection`; a
\* block rule without suffix has them in the block node.
C19_BlockPseudoChild ==
  BEMConversionDone =>
    \A g \in 1..Len(mediaGroups) :
      \A r \in 1..Len(mediaGroups[g].rules) :
        LET rule == mediaGroups[g].rules[r]
            sel == rule.selector
            b == BlockEnd(sel)
        IN  /\ (b # 0 /\ IsPseudoSuffix(Drop(sel, b))) =>
                 NodeHolds(nestedStructures[g],
                           <<Take(sel, b), <<"&">> \o Drop(sel, b)>>,
                           rule.declarations)
            /\ (b # 0 /\ b = Len(sel)) =>
                 NodeHolds(nestedStructures[g], <<sel>>, rule.declarations)

\* the suffix is one attribute selector
IsAttributeSuffix(suffix) ==
  /\ Len(suffix) >= 3
  /\ suffix[1] = "["
  /\ suffix[Len(suffix)] = "]"
  /\ \A k \in 2..(Len(suffix) - 1) : suffix[k] \notin {"[", "]"}

\* the declarations of the rules of the group whose selector is selector
RECURSIVE DeclarationsOf(_, _)
DeclarationsOf(ruleSeq, selector) ==
  IF Len(ruleSeq) = 0 THEN <<>>
  ELSE (IF ruleSeq[1].selector = selector THEN ruleSeq[1].declarations ELSE <<>>)
         \o DeclarationsOf(Tail(ruleSeq), selector)

\* C20: in BEM mode the attribute suffix stripped before BEM matching is
\* re-attached as a nested node: the declarations of `.B[attr]` are in a
\* child of the node `.B` whose key carries `[attr]`, and the node `.B`
\* itself holds the declarations of the rules `.B` only; likewise for
\* `.B__E[attr]` below the node `&__E`.
C20_AttributeChild ==
  BEMConversionDone =>
    \A g \in 1..Len(mediaGroups) :
      \A r \in 1..Len(mediaGroups[g].rules) :
        LET rule == mediaGroups[g].rules[r]
            sel == rule.selector
            bracket == FirstIn(sel, {"["})
            name == Take(sel, bracket - 1)
            suffix == Drop(sel, bracket - 1)
            tree == nestedStructures[g]
        IN  (/\ bracket > 1
             /\ IsAttributeSuffix(suffix)
             /\ ChainTarget(name) # <<>>) =>
              /\ \E n \in 1..Len(tree) :
                   /\ Len(tree[n].path) = Len(ChainTarget(name)) + 1
                   /\ IsStrictPrefix(ChainTarget(name), tree[n].path)
                   /\ Includes(tree[n].path[Len(tree[n].path)], suffix)
                   /\ DeclarationSet(rule.declarations)
                        \subseteq DeclarationSet(tree[n].declarations)
              /\ HasNode(tree, ChainTarget(name))
              /\ tree[NodeIndex(tree, ChainTarget(name))].declarations
                   = DeclarationsOf(mediaGroups[g].rules, name)

(***************************************************************************)
(* At-rules: @font-face and @keyframes blocks                              *)
(***************************************************************************)
MaxAtNodes == 2

\* csstree.generate of the declarations of a block: `p:v;p:v`
RECURSIVE GenerateDeclarations(_)
GenerateDeclarations(declarations) ==
  IF Len(declarations) = 0 THEN <<>>
  ELSE declarations[1].property \o <<":">> \o declarations[1].value
         \o (IF Len(declarations) > 1 THEN <<";">> ELSE <<>>)
         \o GenerateDeclarations(Tail(declarations))

\* csstree.generate of the rules of a block: `sel{p:v}sel{p:v}`
RECURSIVE GenerateRules(_)
GenerateRules(ruleNodes) ==
  IF Len(ruleNodes) = 0 THEN <<>>
  ELSE ruleNodes[1].prelude \o <<"{">>
         \o GenerateDeclarations(ruleNodes[1].declarations) \o <<"}">>
         \o GenerateRules(Tail(ruleNodes))

\* a keyframes at-rule as csstree parses it: the steps are Rule nodes of
\* the block, and csstree.generate(atrule.block) is their text in braces
KeyframesNode(name, prelude, steps) ==
  AtruleNode(name, prelude, <<>>, steps,
             <<"{">> \o GenerateRules(steps) \o <<"}">>)

FontFaceNode(declarations) ==
  AtruleNode(<<"f","o","n","t","-","f","a","c","e">>, <<>>, declarations, <<>>, <<>>)

font_family_X == <<Declaration(<<"f","o","n","t","-","f","a","m","i","l","y">>, <<"X">>, FALSE)>>
font_family_Y == <<Declaration(<<"f","o","n","t","-","f","a","m","i","l","y">>, <<"Y">>, FALSE)>>
opacity_0 == Declaration(<<"o","p","a","c","i","t","y">>, <<"0">>, FALSE)
opacity_1 == Declaration(<<"o","p","a","c","i","t","y">>, <<"1">>, FALSE)

spin_steps ==
  <<RuleNode(<<"f","r","o","m">>, <<opacity_0, opacity_1>>), RuleNode(<<"t","o">>, <<opacity_0>>)>>

AtRuleNodes ==
  {FontFaceNode(font_family_X),
   FontFaceNode(font_family_Y),
   RuleNode(<<".","a">>, font_family_X),
   KeyframesNode(str_keyframes, <<"s","p","i","n">>, spin_steps),
   KeyframesNode(str_webkit_keyframes, <<"s","p","i","n">>, spin_steps),
   KeyframesNode(str_keyframes, <<"f","a","d","e">>, <<RuleNode(<<"1","2",".","5","%">>, <<opacity_1>>)>>),
   KeyframesNode(str_keyframes, <<"s","p","i","n">>, <<RuleNode(<<"5","0","%">>, <<opacity_1>>)>>)}

AtRuleOptions ==
  {UserOptions(m[1], m[2], dedup, TRUE, FALSE, 0, TRUE, TRUE) :
     m \in {<<TRUE, TRUE>>, <<FALSE, TRUE>>, <<FALSE, FALSE>>},
     dedup \in BOOLEAN}

InitAtRules ==
  \E user \in AtRuleOptions, css \in SeqsUpTo(AtRuleNodes, MaxAtNodes) :
    Constructed(user, <<css>>)

SpecAtRules == InitAtRules /\ [][Next]_vars

IsKeyframesSelector(selector) ==
  StartsWith(selector, str_at_keyframes)
    \/ StartsWith(selector, str_at_webkit_keyframes)

\* the modes in which at-rules are set as direct children of the root
AtRuleConversionDone ==
  pc = "done" /\ (options.enableBEM \/ options.enableSmartNesting)

\* C21: tree insertion never discards earlier content: every at-rule
\* given to the builder has its declarations in the top-level node keyed
\* by its prelude, also when an earlier at-rule has the same prelude (two
\* `@font-face` blocks), and the declarations of both are printed under
\* that top-level rule in the output.
C21_AtRulesAppend ==
  AtRuleConversionDone =>
    \A g \in 1..Len(mediaGroups) :
      \A r \in 1..Len(mediaGroups[g].rules) :
        LET rule == mediaGroups[g].rules[r]
        IN  IsAtRule(rule) =>
              /\ NodeHolds(nestedStructures[g], <<rule.selector>>,
                           rule.declarations)
              /\ ~IsKeyframesSelector(rule.selector) =>
                   \E i \in TopLevelOpenings(result, rule.selector) :
                     DeclarationSet(rule.declarations)
                       \subseteq OwnDeclarations(result, i)

\* C22: duplicate detection never merges at-rule pseudo-rules: every
\* at-rule that enters duplicate detection leaves it as a rule of its own
\* with its own prelude and declarations, no merged selector list has an
\* at-rule among its parts (so an at-rule is merged neither with another
\* at-rule nor with a style rule), and where at-rules are top-level
\* children each is opened under its own prelude in the output.
C22_AtRulesNotMerged ==
  (pc = "done" /\ options.enableDuplicateDetection) =>
    /\ \A r \in 1..Len(rules) :
         IsAtRule(rules[r]) =>
           \E d \in 1..Len(deduplicatedRules) :
             /\ deduplicatedRules[d].selector = rules[r].selector
             /\ deduplicatedRules[d].declarations = rules[r].declarations
    /\ \A d \in 1..Len(deduplicatedRules) :
         LET parts == SelectorList(deduplicatedRules[d].selector)
         IN  Cardinality(parts) > 1 =>
               \A part \in parts : ~IsAtRuleSelector(part)
    /\ (options.enableBEM \/ options.enableSmartNesting) =>
         \A r \in 1..Len(rules) :
           IsAtRule(rules[r]) =>
             TopLevelOpenings(result, rules[r].selector) # {}

(***************************************************************************)
(* C23: the @media wrapper                                                 *)
(***************************************************************************)
\* the lines `@media <query> {` of the text
MediaOpenings(lines, query) ==
  {i \in 1..Len(lines) : lines[i].kind = "media-open" /\ lines[i].text = query}

\* C23: for either setting of enableMediaQueryGrouping every rule recorded
\* with a media query is formatted in a group whose wrapper carries that
\* query, so none is emitted at top level with its media condition
\* dropped, and the text has exactly one `@media` block for each distinct
\* query.
C23_MediaWrapperKept ==
  pc = "done" =>
    \A g \in 1..Len(mediaGroups) :
      \A r \in 1..Len(mediaGroups[g].rules) :
        LET query == mediaGroups[g].rules[r].mediaQuery
        IN  query # <<>> =>
              /\ mediaGroups[g].key = query
              /\ Cardinality(MediaOpenings(result, query)) = 1

(***************************************************************************)
(* C24: BEM classification                                                 *)
(***************************************************************************)
MaxClassifyNodes == 2

ClassifyNodes ==
  {RuleNode(<<".","h","e","a","d","e","r">>, color_red),
   RuleNode(<<".","h","e","a","d","e","r","-","-","d","a","r","k">>, color_red),
   RuleNode(<<".","h","e","a","d","e","r","_","_","l","o","g","o">>, color_red),
   RuleNode(<<".","h","e","a","d","e","r","_","_","l","o","g","o",":","h","o","v","e","r">>, color_red),
   RuleNode(<<".","c","a","r","d","_","_","b","o","d","y","_","_","t","i","t","l","e">>, color_red),
   RuleNode(<<".","c","a","r","d","_","_","t","i","t","l","e","-","-","b","i","g">>, color_red),
   RuleNode(<<".","b","t","n","[","d","i","s","a","b","l","e","d","]">>, color_red),
   RuleNode(<<".","a",".","b">>, color_red),
   RuleNode(<<"#","m","a","i","n">>, color_red),
   RuleNode(<<"d","i","v">>, color_red),
   RuleNode(<<".","n","a","v"," ",">"," ","l","i">>, color_red)}

InitClassify ==
  \E user \in BEMOptions, css \in SeqsUpTo(ClassifyNodes, MaxClassifyNodes) :
    Constructed(user, <<css>>)

SpecClassify == InitClassify /\ [][Next]_vars

\* the selector after its pseudo and attribute suffixes are stripped
CleanSelector(selector) == StripAttribute(StripPseudo(selector))

\* t is made of names separated by `__`
RECURSIVE IsElementChainName(_)
IsElementChainName(t) ==
  \E i \in 1..Len(t) :
    /\ IsBEMName(Take(t, i))
    /\ \/ i = Len(t)
       \/ /\ i + 2 < Len(t)
          /\ SubSeq(t, i + 1, i + 2) = <<"_", "_">>
          /\ IsElementChainName(Drop(t, i + 2))

\* the selector the classification stands for: `.block__e1__e2`
RECURSIVE JoinedElements(_)
JoinedElements(elements) ==
  IF Len(elements) = 0 THEN <<>>
  ELSE <<"_", "_">> \o elements[1] \o JoinedElements(Tail(elements))

\* the selector does not follow the single-class grammar: it does not
\* start with a dot or has a character that no BEM name or separator has
OutsideGrammar(clean) ==
  \/ Len(clean) < 2
  \/ clean[1] # "."
  \/ \E k \in 2..Len(clean) : clean[k] \notin WordChars \cup {"_"}

HasNoSeparator(name) ==
  ~Includes(name, <<"_", "_">>) /\ ~Includes(name, <<"-", "-">>)

\* the ways to read `.B__E1__E2--M`: the index the element chain ends at
ElementModifierSplits(clean) ==
  {e \in 2..(Len(clean) - 3) :
     /\ clean[1] = "."
     /\ Includes(SubSeq(clean, 2, e), <<"_", "_">>)
     /\ IsElementChainName(SubSeq(clean, 2, e))
     /\ SubSeq(clean, e + 1, e + 2) = <<"-", "-">>
     /\ IsBEMName(Drop(clean, e + 2))}

\* C24 (as stated): a single-class selector without `__` and `--` parts
\* is classified block; with elements only, element with the names in
\* order; with only a `--modifier`, modifier with block and modifier
\* apart (`.header--dark`: block `header`, modifier `dark`); with both,
\* element-modifier; a selector outside the single-class grammar gets no
\* classification.
C24_Classification ==
  BEMConversionDone =>
    \A r \in 1..Len(parsedRules) :
      LET info == parsedRules[r].bemInfo
          clean == CleanSelector(parsedRules[r].selector)
      IN  /\ OutsideGrammar(clean) => info.type = "none"
          /\ (~OutsideGrammar(clean) /\ HasNoSeparator(Tail(clean))) =>
               (info.type = "block" /\ info.block = Tail(clean))
          /\ (~OutsideGrammar(clean) /\ ModifierSplits(clean) # {}
                /\ ~Includes(clean, <<"_", "_">>)) =>
               /\ info.type = "modifier"
               /\ \E b \in ModifierSplits(clean) :
                    /\ info.block = SubSeq(clean, 2, b)
                    /\ info.modifier = Drop(clean, b + 2)
          /\ (~OutsideGrammar(clean) /\ ElementModifierSplits(clean) # {}) =>
               info.type = "element-modifier"
          /\ info.type = "element" =>
               <<".">> \o info.block \o JoinedElements(info.elements) = clean

\* C24 (amended): hyphens, `--` included, belong to the names.  A
\* single-class selector without `__` is classified block and the whole
\* name is its block (`.header--dark`: block `header--dark`); a selector
\* `.B__E1__E2` of names separated by `__` is classified element with
\* block B and the names E1, E2 in order, a `--suffix` staying part of the
\* last name; the kinds modifier and element-modifier are never given; a
\* selector outside the single-class grammar gets no classification.
C24_BlockOrElement ==
  BEMConversionDone =>
    \A r \in 1..Len(parsedRules) :
      LET info == parsedRules[r].bemInfo
          clean == CleanSelector(parsedRules[r].selector)
      IN  /\ info.type \in {"none", "block", "element"}
          /\ info.type # "none" => info.modifier = <<>>
          /\ OutsideGrammar(clean) => info.type = "none"
          /\ (~OutsideGrammar(clean) /\ IsBEMName(Tail(clean))) =>
               /\ info.type = "block"
               /\ info.block = Tail(clean)
               /\ info.elements = <<>>
          /\ (~OutsideGrammar(clean) /\ Includes(clean, <<"_", "_">>)
                /\ IsElementChainName(Tail(clean))) =>
               info.type = "element"
          /\ info.type = "element" =>
               /\ <<".">> \o info.block \o JoinedElements(info.elements) = clean
               /\ IsBEMName(info.block)
               /\ Len(info.elements) >= 1
               /\ \A e \in 1..Len(info.elements) : IsBEMName(info.elements[e])

\* a modifier selector, a two-level element, an element with a `--`
\* suffix and a selector outside the grammar have been classified
C24_Witness ==
  /\ BEMConversionDone
  /\ \E r \in 1..Len(parsedRules) :
       /\ parsedRules[r].selector \in {<<".","h","e","a","d","e","r","-","-","d","a","r","k">>, <<".","c","a","r","d","_","_","t","i","t","l","e","-","-","b","i","g">>}
       /\ parsedRules[r].bemInfo.type \in {"block", "element"}
  /\ \E r \in 1..Len(parsedRules) :
       \/ /\ parsedRules[r].selector = <<".","c","a","r","d","_","_","b","o","d","y","_","_","t","i","t","l","e">>
          /\ parsedRules[r].bemInfo.elements = <<<<"b","o","d","y">>, <<"t","i","t","l","e">>>>
       \/ /\ OutsideGrammar(CleanSelector(parsedRules[r].selector))
          /\ parsedRules[r].bemInfo.type = "none"

(***************************************************************************)
(* C25: selector lists                                                     *)
(***************************************************************************)
MaxSelectorNodes == 2

SelectorNodes ==
  {RuleNode(<<".","b","t","n">>, color_red),
   RuleNode(<<".","a",",",".","b">>, color_red),
   RuleNode(<<":","i","s","(",".","a",",",".","b",")">>, color_red),
   RuleNode(<<".","x",":","n","o","t","(",".","y",",",".","z",")">>, color_blue),
   RuleNode(<<"[","d","a","t","a","-","x","=","'","a",",","b","'","]">>, color_blue)}

InitSelectors ==
  \E user \in AtRuleOptions, css \in SeqsUpTo(SelectorNodes, MaxSelectorNodes) :
    Constructed(user, <<css>>)

SpecSelectors == InitSelectors /\ [][Next]_vars

\* the number of parentheses and brackets open before position k of s
BracketDepth(s, k) ==
  Cardinality({j \in 1..(k - 1) : s[j] \in {"(", "["}})
    - Cardinality({j \in 1..(k - 1) : s[j] \in {")", "]"}})

\* the commas of s outside parentheses and brackets
TopLevelCommas(s) ==
  {k \in 1..Len(s) : s[k] = "," /\ BracketDepth(s, k) = 0}

BalancedBrackets(s) ==
  /\ BracketDepth(s, Len(s) + 1) = 0
  /\ \A k \in 1..Len(s) : BracketDepth(s, k + 1) >= 0

\* the number of selectors of the style rules of a stylesheet
RECURSIVE TopLevelSelectorCount(_)
TopLevelSelectorCount(ast) ==
  IF Len(ast) = 0 THEN 0
  ELSE (IF ast[1].type = "Rule"
          THEN Cardinality(TopLevelCommas(ast[1].prelude)) + 1 ELSE 0)
         + TopLevelSelectorCount(Tail(ast))

\* C25: a selector list is split only on its top-level commas: a rule
\* whose prelude has N top-level selectors yields exactly N ParsedRules,
\* each with balanced parentheses and brackets, so a comma inside
\* `:is(.a,.b)`, `:not(.y,.z)` or `[data-x='a,b']` never splits.
C25_TopLevelCommasOnly ==
  (pc = "done" /\ calls < Len(files)) =>
    /\ Len(parsedRules) = TopLevelSelectorCount(files[calls + 1])
    /\ \A r \in 1..Len(parsedRules) : BalancedBrackets(parsedRules[r].selector)

(***************************************************************************)
(* C26, C27: keyframes                                                     *)
(***************************************************************************)
\* the keyframes at-rules of a stylesheet
KeyframesNodesOf(ast) ==
  {i \in 1..Len(ast) :
     ast[i].type = "Atrule"
       /\ ast[i].name \in {str_keyframes, str_webkit_keyframes}}

\* the opaque rule of a keyframes at-rule
KeyframesRuleOf(node) ==
  ParsedRule(<<"@">> \o node.name \o <<" ">> \o node.prelude,
             <<Declaration(str_keyframes_block, node.value, FALSE)>>,
             NoBEM, <<>>)

\* C26: no keyframe step becomes an ordinary rule: each keyframes block
\* of the stylesheet gives exactly one opaque rule holding the single
\* `@keyframes-block` declaration, and no ParsedRule has the selector of
\* one of the block's steps, fractional steps such as `12.5%` included.
C26_StepsNotRules ==
  (pc = "done" /\ calls < Len(files)) =>
    LET ast == files[calls + 1]
    IN  \A i \in KeyframesNodesOf(ast) :
          /\ Cardinality({r \in 1..Len(parsedRules) :
                            parsedRules[r] = KeyframesRuleOf(ast[i])})
               = Cardinality({j \in KeyframesNodesOf(ast) : ast[j] = ast[i]})
          /\ \A s \in 1..Len(ast[i].children) :
               \A r \in 1..Len(parsedRules) :
                 parsedRules[r].selector # ast[i].children[s].prelude

\* the declarations of a step with each property once, carrying the value
\* of its last occurrence
LastWins(declarations) ==
  {<<declarations[d].property, declarations[d].value, FALSE>> :
     d \in {d \in 1..Len(declarations) :
              \A e \in (d + 1)..Len(declarations) :
                declarations[e].property # declarations[d].property}}

\* the declaration lines printed directly after the opening line i
OwnDeclarationLines(lines, i) ==
  {k \in (i + 1)..Len(lines) : \A j \in (i + 1)..k : lines[j].kind = "decl"}

\* C27: a keyframe step is re-emitted with each of its properties exactly
\* once, carrying the value of the property's last occurrence in the step.
C27_KeyframeLastWins ==
  (AtRuleConversionDone /\ calls < Len(files)) =>
    LET ast == files[calls + 1]
    IN  \A i \in KeyframesNodesOf(ast) :
          \A o \in TopLevelOpenings(result, KeyframesRuleOf(ast[i]).selector) :
            \A j \in (o + 1)..Len(result) :
              \A s \in 1..Len(ast[i].children) :
                (InsideBlock(result, o, j)
                   /\ result[j] = OpenLine(1, ast[i].children[s].prelude)) =>
                  /\ OwnDeclarations(result, j)
                       = LastWins(ast[i].children[s].declarations)
                  /\ Cardinality(OwnDeclarationLines(result, j))
                       = Cardinality(LastWins(ast[i].children[s].declarations))

(***************************************************************************)
(* C28, C29: variable references                                           *)
(***************************************************************************)
\* the declarations whose value the variable pass has rewritten
RewrittenPositions ==
  {pos \in DeclarationPositions(parsedRules) :
     DeclarationAt(rules, pos).value # DeclarationAt(parsedRules, pos).value}

\* C28: variable rewriting respects categories: a declaration's value is
\* replaced by a variable only when the variable's category is the
\* category of the declaration's own (property, value), so that
\* `display: inherit` is never rewritten to a colour variable extracted
\* from repeated `color: inherit` declarations.
C28_CategoryRespected ==
  (pc = "done" /\ options.enableVariableExtraction) =>
    \A pos \in RewrittenPositions :
      LET decl == DeclarationAt(parsedRules, pos)
      IN  \E i \in 1..Len(extractedVariables) :
            /\ extractedVariables[i].name = DeclarationAt(rules, pos).value
            /\ extractedVariables[i].category
                 = categorizeValue(decl.property, decl.value)

MaxRefNodes == 3

\* repeated values of two categories and two keyframes blocks with one body
RefNodes ==
  {RuleNode(<<".","a",",",".","b">>, <<Declaration(<<"c","o","l","o","r">>, <<"i","n","h","e","r","i","t">>, FALSE)>>),
   RuleNode(<<".","e">>, <<Declaration(<<"d","i","s","p","l","a","y">>, <<"i","n","h","e","r","i","t">>, FALSE)>>),
   RuleNode(<<".","f",",",".","g">>, <<Declaration(<<"p","a","d","d","i","n","g">>, <<"2","0","p","x">>, FALSE)>>),
   KeyframesNode(str_keyframes, <<"s","p","i","n">>, spin_steps),
   KeyframesNode(str_webkit_keyframes, <<"s","p","i","n">>, spin_steps)}

RefOptions ==
  {UserOptions(FALSE, TRUE, dedup, TRUE, TRUE, 0, TRUE, TRUE) : dedup \in BOOLEAN}

\* a fresh converter given one stylesheet
InitRefs ==
  \E user \in RefOptions, css \in SeqsUpTo(RefNodes, MaxRefNodes) :
    Constructed(user, <<css>>)

SpecRefs == InitRefs /\ [][Next]_vars

\* the lines of the header that declare the variable
DeclaringLines(lines, name) ==
  {i \in VariableLines(lines) : lines[i].property = name}

\* C29: in the first conversion of a converter every variable name that
\* a rewritten declaration refers to is declared exactly once in the
\* variables header, with the literal the declaration held before
\* rewriting as its value; every variable reference printed in a rule is
\* declared exactly once; and a `@keyframes-block` declaration is never
\* rewritten.
C29_ReferencesDeclared ==
  FirstConversionDone =>
    /\ \A pos \in RewrittenPositions :
         LET name == DeclarationAt(rules, pos).value
         IN  /\ Cardinality(DeclaringLines(result, name)) = 1
             /\ \A i \in DeclaringLines(result, name) :
                  result[i].value = DeclarationAt(parsedRules, pos).value
    /\ \A l \in 1..Len(result) :
         (result[l].kind = "decl" /\ StartsWith(result[l].value, <<"$">>)) =>
           Cardinality(DeclaringLines(result, result[l].value)) = 1
    /\ \A pos \in DeclarationPositions(parsedRules) :
         DeclarationAt(parsedRules, pos).property = str_keyframes_block =>
           DeclarationAt(rules, pos) = DeclarationAt(parsedRules, pos)

\* a declaration has been rewritten, and a variable is bound to the text
\* of a keyframes block
C29_Witness ==
  /\ FirstConversionDone
  /\ RewrittenPositions # {}
  /\ \E pos \in DeclarationPositions(parsedRules) :
       /\ DeclarationAt(parsedRules, pos).property = str_keyframes_block
       /\ VariablesOfValue(DeclarationAt(parsedRules, pos).value) # {}

(***************************************************************************)
(* C30: comments in duplicate detection                                    *)
(***************************************************************************)
MaxCommentNodes == 3

\* comments, style rules with an empty block, and a rule with a declaration
CommentNodes ==
  {CommentNode(<<"!"," ","o","n","e"," ">>),
   CommentNode(<<"!"," ","t","w","o"," ">>),
   RuleNode(<<".","e">>, <<>>),
   RuleNode(<<".","f">>, <<>>),
   RuleNode(<<".","a">>, color_red)}

InitComments ==
  \E user \in AtRuleOptions, css \in SeqsUpTo(CommentNodes, MaxCommentNodes) :
    Constructed(user, <<css>>)

SpecComments == InitComments /\ [][Next]_vars

\* how many times the rule occurs in the list
CountOf(ruleList, rule) ==
  Cardinality({i \in 1..Len(ruleList) : ruleList[i] = rule})

\* C30: comment pseudo-rules are never merged by duplicate detection:
\* every comment given to detectAndMergeDuplicates is returned as its own
\* pseudo-rule with the selector `/* COMMENT */` and its text, as many
\* times as it was given, and no returned rule has the comment selector as
\* a part of a joined selector; also when comments and style rules with
\* empty blocks share the empty hash bucket, in any order.
C30_CommentsNotMerged ==
  (pc = "done" /\ options.enableDuplicateDetection) =>
    /\ \A r \in 1..Len(rules) :
         rules[r].selector = str_COMMENT =>
           CountOf(deduplicatedRules, rules[r]) = CountOf(rules, rules[r])
    /\ \A d \in 1..Len(deduplicatedRules) :
         Includes(deduplicatedRules[d].selector, str_COMMENT) =>
           deduplicatedRules[d].selector = str_COMMENT

\* a style rule with an empty block opened the empty bucket and a comment
\* came into it later
C30_Witness ==
  /\ pc = "done" /\ options.enableDuplicateDetection
  /\ Len(rules) = 3
  /\ \E r1 \in 1..Len(rules), r2 \in 1..Len(rules) :
       /\ r1 < r2
       /\ rules[r1].selector # str_COMMENT
       /\ rules[r1].declarations = <<>>
       /\ rules[r2].selector = str_COMMENT

====
